---- MODULE Spec2Model ----
(***************************************************************************)
(* Narrative Ledger of DLX-3.0: the entry store (StoryWriterService of     *)
(* services/securityService.ts, lines 892-1057), its audit log, the        *)
(* template validator, the timeline view, and the draft/published store    *)
(* with asynchronous updates (StoryWriterService of unnamed/part_011).     *)
(***************************************************************************)
EXTENDS Integers, Sequences, FiniteSets, TLC

VARIABLES
  entries,             \* Map<string, StoryEntry>, as the sequence of its values in insertion order
  sortedEntriesCache,  \* StoryEntry[] | null
  storage,             \* localStorage[ENTRIES_STORAGE_KEY]: the persisted array
  auditLogs,           \* the audit log, newest record first
  auditStorage,        \* localStorage[STORAGE_KEY_AUDIT]: the persisted audit log
  config,              \* AutomationService.config
  clock,               \* the system clock read by new Date()
  uuidCount,           \* how many ids crypto.randomUUID() has handed out
  lastOp,              \* the last call: its name, arguments and outcome
  swEntries,           \* part_011: Map<string, StoryWriterEntry> of published entries
  swDrafts,            \* part_011: Map<string, StoryWriterEntry> of drafts
  swTasks,             \* part_011: the async calls suspended at an await
  rateLimitMap,        \* SecurityService.rateLimitMap: endpoint -> {count, resetAt}
  dateNow              \* checkRateLimit's now: Date.now(), in milliseconds

vars == <<entries, sortedEntriesCache, storage, auditLogs, auditStorage, config, clock,
          uuidCount, lastOp, swEntries, swDrafts, swTasks, rateLimitMap, dateNow>>

storeVars == <<entries, sortedEntriesCache, storage, auditLogs, auditStorage, config, clock,
               uuidCount, lastOp>>
swVars == <<swEntries, swDrafts, swTasks>>
rlVars == <<rateLimitMap, dateNow>>

----------------------------------------------------------------------------
(* Bounds of the model *)

\* the number of mutating calls of one run
MaxOps == 2

\* the audit log's cap
MAX_AUDIT_LOGS == 1000

\* T | null: the empty tuple is null, a one-element tuple holds the value
Null == << >>

Some(x) == <<x>>
NoId == ""

Roles == {"lux", "mini-lux", "scribe"}
Statuses == {"draft", "published", "archived"}

----------------------------------------------------------------------------
(* JavaScript helpers *)

\* {...a, ...b}: the fields of b win
Merge(a, b) ==
  [k \in (DOMAIN a) \cup (DOMAIN b) |-> IF k \in DOMAIN b THEN b[k] ELSE a[k]]

\* Map.has / Map.get / Map.set / Map.delete on a map kept as its values in insertion order
MapHas(m, id) == \E i \in 1..Len(m) : m[i].id = id

MapGet(m, id) == m[CHOOSE i \in 1..Len(m) : m[i].id = id]

MapSet(m, e) ==
  IF MapHas(m, e.id)
  THEN [i \in 1..Len(m) |-> IF m[i].id = e.id THEN e ELSE m[i]]
  ELSE Append(m, e)

MapDelete(m, id) == SelectSeq(m, LAMBDA e : e.id # id)

\* crypto.randomUUID(): an id no earlier call returned and no caller can know
UuidPool == <<"u1", "u2", "u3", "u4", "u5", "u6">>

UuidOf(n) == UuidPool[n]

Range(s) == {s[i] : i \in 1..Len(s)}

----------------------------------------------------------------------------
(* The seed data *)

SeedRefs == <<[id |-> "abcd1234", type |-> "commit-hash", description |-> "Initial project commit"]>>

Seed(id, title, date, type, author, created) ==
  [id |-> id, title |-> title, date |-> date,
   executiveSummary |-> "summary", whatChanged |-> "changes",
   decisionsRationale |-> "rationale", risksMitigations |-> "risks",
   references |-> SeedRefs, type |-> type, author |-> author,
   version |-> 1, status |-> "published", tags |-> <<"backfill">>,
   createdAt |-> created, updatedAt |-> created]

initialEntries ==
  << Seed("e1", "Inception", 1, "milestone", "lux", 1),
     Seed("e2", "Incident", 2, "incident", "mini-lux", 2),
     Seed("e3", "Deploy", 3, "milestone", "scribe", 3) >>

----------------------------------------------------------------------------
(* TemplateValidator (unnamed/part_009) *)

MINIMUM_FIELDS ==
  <<"title", "date", "executiveSummary", "whatChanged", "decisionsRationale",
    "risksMitigations", "references">>

MIN_SUMMARY_LENGTH == 20
MIN_WHAT_CHANGED_LENGTH == 10
MIN_TITLE_LENGTH == 5

EntryTypes == {"decision", "incident", "milestone", "routine", "rollback", "flip"}

\* A date field is kept as a number: d > 0 is a well-formed "YYYY-MM-DD HH:MM:SS"
\* string naming the instant d, EmptyDate the empty string, MalformedDate a string
\* the pattern rejects, ImpossibleDate a string the pattern accepts and Date cannot
\* parse ("2024-13-45 99:99:99").
EmptyDate == 0
MalformedDate == 0 - 1
ImpossibleDate == 0 - 2

\* DATE_REGEX.test(date)
DateRegexTest(d) == d > 0 \/ d = ImpossibleDate

DateIsNaNNever(d) == FALSE

\* isNaN(new Date(date.replace(' ', 'T') + 'Z').getTime())
DateIsNaN(d) == d <= 0

\* !entry[field]: an absent field (undefined), the empty string and the empty date
\* are falsy, an array never is
Falsy(entry, field) ==
  \/ field \notin DOMAIN entry
  \/ CASE field = "date" -> entry.date = EmptyDate
       [] field = "references" -> FALSE
       [] OTHER -> entry[field] = ""

MissingErrors(entry) ==
  LET miss == SelectSeq(MINIMUM_FIELDS, LAMBDA f : Falsy(entry, f))
  IN  [i \in 1..Len(miss) |-> <<"Missing required field", miss[i]>>]

\* the forEach over entry.references, run when the array is there and not empty
ReferenceErrors(entry) ==
  IF Falsy(entry, "references") THEN << >>
  ELSE LET bad == SelectSeq([i \in 1..Len(entry.references) |-> i],
                            LAMBDA i : \/ Falsy(entry.references[i], "id")
                                       \/ Falsy(entry.references[i], "type")
                                       \/ Falsy(entry.references[i], "description"))
       IN  [k \in 1..Len(bad) |-> <<"Reference is incomplete", bad[k]>>]

Validate(entry) ==
  LET errors ==
        MissingErrors(entry)
        \o (IF ~Falsy(entry, "title") /\ Len(entry.title) < MIN_TITLE_LENGTH
            THEN << <<"Title too short", "title">> >> ELSE << >>)
        \o (IF ~Falsy(entry, "date") /\ ~DateRegexTest(entry.date)
            THEN << <<"Date must be in UTC format", "date">> >> ELSE << >>)
        \o ReferenceErrors(entry)
        \o (IF Falsy(entry, "author") \/ entry.author \notin Roles
            THEN << <<"Author must be one of", "author">> >> ELSE << >>)
        \o (IF Falsy(entry, "type") \/ entry.type \notin EntryTypes
            THEN << <<"Invalid entry type", "type">> >> ELSE << >>)
        \o (IF ~Falsy(entry, "date") /\ DateIsNaN(entry.date)
            THEN << <<"Invalid date format", "date">> >> ELSE << >>)
      warnings ==
        (IF ~Falsy(entry, "executiveSummary")
            /\ Len(entry.executiveSummary) < MIN_SUMMARY_LENGTH
         THEN <<"Executive summary is short">> ELSE << >>)
        \o (IF ~Falsy(entry, "whatChanged")
               /\ Len(entry.whatChanged) < MIN_WHAT_CHANGED_LENGTH
            THEN <<"What changed is brief">> ELSE << >>)
        \o (IF Falsy(entry, "references") \/ Len(entry.references) = 0
            THEN <<"No references provided">> ELSE << >>)
  IN  [isValid |-> Len(errors) = 0, errors |-> errors, warnings |-> warnings]

\* the narrative fields checkQuickWriteCriteria measures, in the order of its
\* && chain, each with its length ceiling
QuickWriteCeilings ==
  << <<"executiveSummary", 500>>, <<"whatChanged", 1000>>,
     <<"decisionsRationale", 1000>>, <<"risksMitigations", 500>> >>

\* entry.f1.length < c1 && entry.f2.length < c2 && ... from the k-th operand on:
\* "threw" when .length is read on an absent field (a TypeError), else the boolean
RECURSIVE IsConcise(_, _)
IsConcise(entry, k) ==
  IF k > Len(QuickWriteCeilings) THEN "true"
  ELSE IF QuickWriteCeilings[k][1] \notin DOMAIN entry THEN "threw"
  ELSE IF Len(entry[QuickWriteCeilings[k][1]]) >= QuickWriteCeilings[k][2] THEN "false"
  ELSE IsConcise(entry, k + 1)

\* checkQuickWriteCriteria(entry): isConcise is computed before hasAllRequired && isConcise
CheckQuickWriteCriteria(entry) ==
  LET hasAllRequired == Len(Validate(entry).errors) = 0
      isConcise == IsConcise(entry, 1)
  IN  IF isConcise = "threw" THEN "threw"
      ELSE IF hasAllRequired /\ isConcise = "true" THEN "true" ELSE "false"

\* a string of n characters
RECURSIVE Text(_)
Text(n) ==
  IF n = 0 THEN ""
  ELSE IF n % 2 = 0 THEN LET half == Text(n \div 2) IN half \o half
  ELSE "a" \o Text(n - 1)

\* a fully populated entry
FullEntry ==
  [id |-> "e9", title |-> "Deploy cache fix", date |-> 2,
   executiveSummary |-> "Fixed the TTL of the cache", whatChanged |-> "TTL is now 60 s",
   decisionsRationale |-> "rationale", risksMitigations |-> "risks",
   references |-> SeedRefs, type |-> "incident", author |-> "lux",
   version |-> 1, status |-> "draft", tags |-> <<"deploy">>,
   createdAt |-> 1, updatedAt |-> 1]

\* one change to an entry: a field removed (absent) or given another value
FieldChanges ==
  << [field |-> "id", absent |-> FALSE, value |-> "e9"],
     [field |-> "title", absent |-> TRUE],
     [field |-> "title", absent |-> FALSE, value |-> ""],
     [field |-> "title", absent |-> FALSE, value |-> "Fix"],
     [field |-> "date", absent |-> TRUE],
     [field |-> "date", absent |-> FALSE, value |-> EmptyDate],
     [field |-> "date", absent |-> FALSE, value |-> MalformedDate],
     [field |-> "date", absent |-> FALSE, value |-> ImpossibleDate],
     [field |-> "executiveSummary", absent |-> TRUE],
     [field |-> "executiveSummary", absent |-> FALSE, value |-> ""],
     [field |-> "executiveSummary", absent |-> FALSE, value |-> "short"],
     [field |-> "executiveSummary", absent |-> FALSE, value |-> Text(499)],
     [field |-> "executiveSummary", absent |-> FALSE, value |-> Text(500)],
     [field |-> "whatChanged", absent |-> TRUE],
     [field |-> "whatChanged", absent |-> FALSE, value |-> ""],
     [field |-> "whatChanged", absent |-> FALSE, value |-> Text(999)],
     [field |-> "whatChanged", absent |-> FALSE, value |-> Text(1000)],
     [field |-> "decisionsRationale", absent |-> TRUE],
     [field |-> "decisionsRationale", absent |-> FALSE, value |-> ""],
     [field |-> "decisionsRationale", absent |-> FALSE, value |-> Text(999)],
     [field |-> "decisionsRationale", absent |-> FALSE, value |-> Text(1000)],
     [field |-> "risksMitigations", absent |-> TRUE],
     [field |-> "risksMitigations", absent |-> FALSE, value |-> ""],
     [field |-> "risksMitigations", absent |-> FALSE, value |-> Text(499)],
     [field |-> "risksMitigations", absent |-> FALSE, value |-> Text(500)],
     [field |-> "references", absent |-> TRUE],
     [field |-> "references", absent |-> FALSE, value |-> << >>],
     [field |-> "references", absent |-> FALSE,
      value |-> SeedRefs \o <<[id |-> "PR#7", type |-> "external", description |-> ""]>>],
     [field |-> "references", absent |-> FALSE,
      value |-> <<[type |-> "external", description |-> "Pull Request #7"]>>],
     [field |-> "author", absent |-> TRUE],
     [field |-> "author", absent |-> FALSE, value |-> "root"],
     [field |-> "type", absent |-> TRUE],
     [field |-> "type", absent |-> FALSE, value |-> "bogus"] >>

Change(entry, c) ==
  IF c.absent THEN [k \in (DOMAIN entry) \ {c.field} |-> entry[k]]
  ELSE [k \in (DOMAIN entry) \cup {c.field} |-> IF k = c.field THEN c.value ELSE entry[k]]

\* the entries handed to the validator: FullEntry with up to two changes
ValidatorInput(i, j) == Change(Change(FullEntry, FieldChanges[i]), FieldChanges[j])

\* validate(entry) on the entry drawn at the start
ValidateCall ==
  /\ lastOp' = [op |-> "validate", entry |-> lastOp.entry,
                result |-> Validate(lastOp.entry)]
  /\ UNCHANGED <<entries, sortedEntriesCache, storage, auditLogs, auditStorage, config,
                 clock, uuidCount>>
  /\ UNCHANGED <<swVars, rlVars>>

\* checkQuickWriteCriteria(entry) on the entry drawn at the start
CheckQuickWriteCall ==
  /\ lastOp' = [op |-> "checkQuickWriteCriteria", entry |-> lastOp.entry,
                result |-> CheckQuickWriteCriteria(lastOp.entry)]
  /\ UNCHANGED <<entries, sortedEntriesCache, storage, auditLogs, auditStorage, config,
                 clock, uuidCount>>
  /\ UNCHANGED <<swVars, rlVars>>

----------------------------------------------------------------------------
(* The audit log (services/securityService.ts, logAudit) *)

LogAuditNoCap(logs, action, entryId, userRole) ==
  <<[action |-> action, entryId |-> entryId, userRole |-> userRole]>> \o logs

LogAuditDropsOne(logs, action, entryId, userRole) ==
  <<[action |-> action, entryId |-> entryId, userRole |-> userRole]>>
    \o SubSeq(logs, 1, Len(logs) - 1)

\* auditLogs.unshift(log); keep the first MAX_AUDIT_LOGS
LogAudit(logs, action, entryId, userRole) ==
  LET added == <<[action |-> action, entryId |-> entryId, userRole |-> userRole]>> \o logs
  IN  IF Len(added) > MAX_AUDIT_LOGS THEN SubSeq(added, 1, MAX_AUDIT_LOGS) ELSE added

\* the number of logAudit calls of one run of the audit log alone
MaxAppends == 1002

\* the n-th record handed to logAudit
AuditRecord(n) == [action |-> "update", entryId |-> n, userRole |-> "lux"]

\* logAudit called on its own, for the n-th time
LogAuditCall ==
  /\ uuidCount < MaxAppends
  /\ uuidCount' = uuidCount + 1
  /\ auditLogs' = LogAudit(auditLogs, AuditRecord(uuidCount').action,
                           AuditRecord(uuidCount').entryId, AuditRecord(uuidCount').userRole)
  /\ auditStorage' = auditLogs'
  /\ lastOp' = [op |-> "logAudit", threw |-> FALSE]
  /\ UNCHANGED <<entries, sortedEntriesCache, storage, config, clock, swEntries, swDrafts,
                 swTasks, rlVars>>

SaveAuditLogsUncaught(setItemOk) == ~setItemOk

\* saveAuditLogs: try { localStorage.setItem(...) } catch (e) { console.error(...) }:
\* whether the error of a failed setItem leaves the method
SaveAuditLogsThrows(setItemOk) == FALSE

\* what saveAuditLogs leaves in localStorage
SaveAuditLogs(logs, setItemOk) == IF setItemOk THEN logs ELSE auditStorage

----------------------------------------------------------------------------
(* The rate limiter (services/securityService.ts, checkRateLimit) *)

\* the latest time of a run, and the number of refused calls of a run
MaxNow == 4
MaxRefused == 2

\* endpoint keys, limits and window lengths handed to checkRateLimit
Endpoints == {"ai-a", "ai-b"}
Limits == {0, 1, 2}
Windows == {2}

\* logAudit(action, resource, details, severity): the log after the call
LogAuditEvent(logs, action, resource, details, severity) ==
  LET added == <<[action |-> action, resource |-> resource, details |-> details,
                  severity |-> severity]>> \o logs
  IN  IF Len(added) > MAX_AUDIT_LOGS THEN SubSeq(added, 1, MAX_AUDIT_LOGS) ELSE added

\* whether the call starts a new window: no record, or the record's window is over
StartsWindow(endpoint) ==
  endpoint \notin DOMAIN rateLimitMap \/ dateNow > rateLimitMap[endpoint].resetAt

CheckRateLimit(endpoint, limit, windowMs, setItemOk) ==
  LET record == rateLimitMap[endpoint]
  IN  /\ Len(auditLogs) < MaxRefused
      /\ IF StartsWindow(endpoint)
         THEN /\ rateLimitMap' = Merge(rateLimitMap,
                                       [k \in {endpoint} |->
                                          [count |-> 1, resetAt |-> dateNow + windowMs]])
              /\ lastOp' = [op |-> "checkRateLimit", endpoint |-> endpoint, limit |-> limit,
                            windowMs |-> windowMs, result |-> TRUE]
              /\ UNCHANGED <<auditLogs, auditStorage>>
         ELSE IF record.count >= limit
         THEN /\ auditLogs' = LogAuditEvent(auditLogs, "rate_limit_exceeded", endpoint,
                                            [count |-> record.count, limit |-> limit],
                                            "warning")
              /\ auditStorage' = SaveAuditLogs(auditLogs', setItemOk)
              /\ lastOp' = [op |-> "checkRateLimit", endpoint |-> endpoint, limit |-> limit,
                            windowMs |-> windowMs, result |-> FALSE]
              /\ UNCHANGED rateLimitMap
         ELSE /\ rateLimitMap' = [rateLimitMap EXCEPT ![endpoint].count = @ + 1]
              /\ lastOp' = [op |-> "checkRateLimit", endpoint |-> endpoint, limit |-> limit,
                            windowMs |-> windowMs, result |-> TRUE]
              /\ UNCHANGED <<auditLogs, auditStorage>>
      /\ UNCHANGED <<entries, sortedEntriesCache, storage, config, clock, uuidCount,
                     dateNow>>
      /\ UNCHANGED swVars

\* time passes between two calls
TimePasses ==
  /\ dateNow < MaxNow
  /\ dateNow' = dateNow + 1
  /\ UNCHANGED <<storeVars, swVars, rateLimitMap>>

----------------------------------------------------------------------------
(* The entry store (services/securityService.ts, StoryWriterService) *)

\* What callers pass to saveEntry: a whole StoryEntry
Titles == {"", "Deploy cache fix"}
CallerIds == {NoId, "zz"}
CallerVersions == {0, 7}
Dates == {2}

Payload(id, title, date, status, author, version) ==
  [id |-> id, title |-> title, date |-> date,
   executiveSummary |-> "Fixed TTL bug", whatChanged |-> "changes",
   decisionsRationale |-> "rationale", risksMitigations |-> "risks",
   references |-> << >>, type |-> "incident", author |-> author,
   version |-> version, status |-> status, tags |-> <<"deploy">>,
   createdAt |-> 0, updatedAt |-> 0]

\* every status and author with a title, and one entry without a title
InputCases ==
  {c \in Titles \X Statuses \X Roles : c[1] # "" \/ (c[2] = "draft" /\ c[3] = "lux")}

EntryInputs(ids) ==
  {Payload(id, c[1], d, c[2], c[3], v) :
     id \in ids, c \in InputCases, d \in Dates, v \in CallerVersions}

StoreIds == {entries[i].id : i \in 1..Len(entries)}

OpsLeft == clock < Len(initialEntries) + MaxOps

\* saveToStorage: the write and the cache invalidation, or neither when setItem throws
SaveToStorage(newEntries, setItemOk) ==
  IF setItemOk
  THEN /\ storage' = newEntries
       /\ sortedEntriesCache' = Null
  ELSE UNCHANGED <<storage, sortedEntriesCache>>

NewEntryCallerVersion(entryData, uuid, now) ==
  Merge(entryData, [id |-> uuid, createdAt |-> now, updatedAt |-> now])

\* { ...entryData, id: crypto.randomUUID(), createdAt: now, updatedAt: now, version: 1 }
NewEntry(entryData, uuid, now) ==
  Merge(entryData, [id |-> uuid, createdAt |-> now, updatedAt |-> now, version |-> 1])

UpdatedEntryCallerVersion(existing, entryData, now) ==
  Merge(Merge(existing, [updatedAt |-> now, version |-> existing.version + 1]), entryData)

\* { ...existing, ...entryData, updatedAt: now, version: existing.version + 1 }
UpdatedEntry(existing, entryData, now) ==
  Merge(Merge(existing, entryData), [updatedAt |-> now, version |-> existing.version + 1])

\* const isNewEntry = !entryData.id || !this.entries.has(entryData.id)
IsNewEntry(entryData) == entryData.id = NoId \/ ~MapHas(entries, entryData.id)

\* the entry saveEntry stores and returns; drawn is the number of UUIDs the caller
\* drew for itself before the call
Written(entryData, drawn) ==
  IF IsNewEntry(entryData)
  THEN NewEntry(entryData, UuidOf(uuidCount + drawn + 1), clock + 1)
  ELSE UpdatedEntry(MapGet(entries, entryData.id), entryData, clock + 1)

\* what saveEntry does to the store and the audit log;
\* auditOk: whether the setItem of the audit log succeeds
SaveEntryWrites(entryData, setItemOk, auditOk, drawn) ==
  LET isNewEntry == IsNewEntry(entryData)
      written == Written(entryData, drawn)
      threw == SaveAuditLogsThrows(auditOk)
  IN  /\ OpsLeft
      /\ clock' = clock + 1
      /\ isNewEntry => uuidCount + drawn < Len(UuidPool)
      /\ uuidCount' = IF isNewEntry THEN uuidCount + drawn + 1 ELSE uuidCount + drawn
      /\ auditLogs' = LogAudit(auditLogs, IF isNewEntry THEN "create" ELSE "update",
                               written.id, written.author)
      /\ auditStorage' = SaveAuditLogs(auditLogs', auditOk)
      /\ IF threw
         THEN UNCHANGED <<entries, storage, sortedEntriesCache>>
         ELSE /\ entries' = MapSet(entries, written)
              /\ SaveToStorage(entries', setItemOk)
      /\ UNCHANGED <<swVars, rlVars>>

SaveEntry(entryData, setItemOk, auditOk) ==
  /\ SaveEntryWrites(entryData, setItemOk, auditOk, 0)
  /\ lastOp' = [op |-> "saveEntry", arg |-> entryData.id, id |-> Written(entryData, 0).id,
                role |-> entryData.author, status |-> entryData.status,
                created |-> IsNewEntry(entryData),
                valid |-> Validate(entryData).isValid,
                auditOk |-> auditOk, threw |-> SaveAuditLogsThrows(auditOk)]
  /\ UNCHANGED config

\* sort((a, b) => new Date(b.date).getTime() - new Date(a.date).getTime()): stable
RECURSIVE SortByDateDesc(_)
SortByDateDesc(s) ==
  IF Len(s) <= 1 THEN s
  ELSE LET rest == SortByDateDesc(Tail(s))
           k == Cardinality({i \in 1..Len(rest) : rest[i].date > Head(s).date})
       IN  SubSeq(rest, 1, k) \o <<Head(s)>> \o SubSeq(rest, k + 1, Len(rest))

GetEntriesResult ==
  IF sortedEntriesCache # Null THEN sortedEntriesCache[1] ELSE SortByDateDesc(entries)

GetEntries ==
  /\ lastOp.op # "getEntries"
  /\ sortedEntriesCache' = Some(GetEntriesResult)
  /\ lastOp' = [op |-> "getEntries"]
  /\ UNCHANGED <<entries, storage, auditLogs, auditStorage, config, clock, uuidCount>>
  /\ UNCHANGED <<swVars, rlVars>>

GetEntryById(id) == IF MapHas(entries, id) THEN Some(MapGet(entries, id)) ELSE Null

\* deleteEntry(id) takes no role: requester is who asked, and the code never sees it
DeleteEntry(id, requester, setItemOk, auditOk) ==
  LET found == MapHas(entries, id)
      threw == found /\ SaveAuditLogsThrows(auditOk)
  IN  /\ OpsLeft
      /\ clock' = clock + 1
      /\ auditLogs' = IF found
                      THEN LogAudit(auditLogs, "delete", id, MapGet(entries, id).author)
                      ELSE auditLogs
      /\ auditStorage' = IF found THEN SaveAuditLogs(auditLogs', auditOk) ELSE auditStorage
      /\ lastOp' = [op |-> "deleteEntry", arg |-> id, role |-> requester, found |-> found,
                    auditOk |-> auditOk, threw |-> threw]
      /\ IF threw
         THEN UNCHANGED <<entries, storage, sortedEntriesCache>>
         ELSE /\ entries' = MapDelete(entries, id)
              /\ SaveToStorage(entries', setItemOk)
      /\ UNCHANGED <<uuidCount, config, swVars, rlVars>>

----------------------------------------------------------------------------
(* Strings *)

\* the UTF-16 code units of the strings that are searched or classified
Chars(s) ==
  CASE s = "" -> << >>
    [] s = " " ->
         <<" ">>
    [] s = "fix" ->
         <<"f", "i", "x">>
    [] s = "FIX" ->
         <<"F", "I", "X">>
    [] s = "x" ->
         <<"x">>
    [] s = "zz" ->
         <<"z", "z">>
    [] s = "infra" ->
         <<"i", "n", "f", "r", "a">>
    [] s = "Deploy Fix" ->
         <<"D", "e", "p", "l", "o", "y", " ", "F", "i", "x">>
    [] s = "cache" ->
         <<"c", "a", "c", "h", "e">>
    [] s = "Infra" ->
         <<"I", "n", "f", "r", "a">>
    [] s = "Audit" ->
         <<"A", "u", "d", "i", "t">>
    [] s = "Fixed TTL" ->
         <<"F", "i", "x", "e", "d", " ", "T", "T", "L">>
    [] s = "Notes" ->
         <<"N", "o", "t", "e", "s">>
    [] s = "misc" ->
         <<"m", "i", "s", "c">>
    [] s = "hotFIX" ->
         <<"h", "o", "t", "F", "I", "X">>
    [] s = "ops" ->
         <<"o", "p", "s">>
    [] s = "Fix cache TTL" ->
         <<"F", "i", "x", " ", "c", "a", "c", "h", "e", " ", "T", "T", "L">>
    [] s = "Rollback plan is documented in the runbook" ->
         <<"R", "o", "l", "l", "b", "a", "c", "k", " ", "p", "l", "a", "n", " ", "i", "s", " ", "d", "o", "c", "u", "m", "e", "n", "t", "e", "d", " ", "i", "n", " ", "t", "h", "e", " ", "r", "u", "n", "b", "o", "o", "k">>
    [] s = "0a1b2c3d4e" ->
         <<"0", "a", "1", "b", "2", "c", "3", "d", "4", "e">>
    [] s = "0a1b2c3" ->
         <<"0", "a", "1", "b", "2", "c", "3">>
    [] s = "Incident in prod" ->
         <<"I", "n", "c", "i", "d", "e", "n", "t", " ", "i", "n", " ", "p", "r", "o", "d">>
    [] s = "Incident" ->
         <<"I", "n", "c", "i", "d", "e", "n", "t">>
    [] s = "incident" ->
         <<"i", "n", "c", "i", "d", "e", "n", "t">>
    [] s = "P1" ->
         <<"P", "1">>
    [] s = "p1" ->
         <<"p", "1">>
    [] s = "v1.2.0" ->
         <<"v", "1", ".", "2", ".", "0">>
    [] s = "Autumn" ->
         <<"A", "u", "t", "u", "m", "n">>
    [] s = "rollback" ->
         <<"r", "o", "l", "l", "b", "a", "c", "k">>
    [] s = "hotfix" ->
         <<"h", "o", "t", "f", "i", "x">>
    [] s = "flip" ->
         <<"f", "l", "i", "p">>
    [] s = "feature flag" ->
         <<"f", "e", "a", "t", "u", "r", "e", " ", "f", "l", "a", "g">>
    [] s = "milestone" ->
         <<"m", "i", "l", "e", "s", "t", "o", "n", "e">>
    [] s = "release" ->
         <<"r", "e", "l", "e", "a", "s", "e">>
    [] s = "major" ->
         <<"m", "a", "j", "o", "r">>
    [] s = "decision" ->
         <<"d", "e", "c", "i", "s", "i", "o", "n">>
    [] s = "rfc" ->
         <<"r", "f", "c">>
    [] s = "feature" ->
         <<"f", "e", "a", "t", "u", "r", "e">>
    [] s = "security" ->
         <<"s", "e", "c", "u", "r", "i", "t", "y">>
    [] s = "performance" ->
         <<"p", "e", "r", "f", "o", "r", "m", "a", "n", "c", "e">>
    [] s = "docs" ->
         <<"d", "o", "c", "s">>
    [] s = "Rollback database migration" ->
         <<"R", "o", "l", "l", "b", "a", "c", "k", " ", "d", "a", "t", "a", "b", "a", "s", "e", " ", "m", "i", "g", "r", "a", "t", "i", "o", "n">>
    [] s = "Fix rollback incident" ->
         <<"F", "i", "x", " ", "r", "o", "l", "l", "b", "a", "c", "k", " ", "i", "n", "c", "i", "d", "e", "n", "t">>
    [] s = "Hotfix login" ->
         <<"H", "o", "t", "f", "i", "x", " ", "l", "o", "g", "i", "n">>
    [] s = "Flip feature flag" ->
         <<"F", "l", "i", "p", " ", "f", "e", "a", "t", "u", "r", "e", " ", "f", "l", "a", "g">>
    [] s = "Release v2 fix" ->
         <<"R", "e", "l", "e", "a", "s", "e", " ", "v", "2", " ", "f", "i", "x">>
    [] s = "Major decision" ->
         <<"M", "a", "j", "o", "r", " ", "d", "e", "c", "i", "s", "i", "o", "n">>
    [] s = "Decision log" ->
         <<"D", "e", "c", "i", "s", "i", "o", "n", " ", "l", "o", "g">>
    [] s = "RFC 12" ->
         <<"R", "F", "C", " ", "1", "2">>
    [] s = "Update readme" ->
         <<"U", "p", "d", "a", "t", "e", " ", "r", "e", "a", "d", "m", "e">>
    [] s = "Prefix cleanup" ->
         <<"P", "r", "e", "f", "i", "x", " ", "c", "l", "e", "a", "n", "u", "p">>
    [] s = "no changes" ->
         <<"n", "o", " ", "c", "h", "a", "n", "g", "e", "s">>
    [] s = "Milestone" ->
         <<"M", "i", "l", "e", "s", "t", "o", "n", "e">>
    [] s = "Rollback" ->
         <<"R", "o", "l", "l", "b", "a", "c", "k">>
    [] s = "Decision" ->
         <<"D", "e", "c", "i", "s", "i", "o", "n">>
    [] s = "Flip" ->
         <<"F", "l", "i", "p">>
    [] s = "what changed" ->
         <<"w", "h", "a", "t", " ", "c", "h", "a", "n", "g", "e", "d">>
    [] s = "changes" ->
         <<"c", "h", "a", "n", "g", "e", "s">>
    [] s = "rationale" ->
         <<"r", "a", "t", "i", "o", "n", "a", "l", "e">>
    [] s = "why" ->
         <<"w", "h", "y">>
    [] s = "decisions" ->
         <<"d", "e", "c", "i", "s", "i", "o", "n", "s">>
    [] s = "risk" ->
         <<"r", "i", "s", "k">>
    [] s = "risks" ->
         <<"r", "i", "s", "k", "s">>
    [] s = "mitigation" ->
         <<"m", "i", "t", "i", "g", "a", "t", "i", "o", "n">>
    [] s = "mitigations" ->
         <<"m", "i", "t", "i", "g", "a", "t", "i", "o", "n", "s">>
    [] s = "## What Changed\n" ->
         <<"#", "#", " ", "W", "h", "a", "t", " ", "C", "h", "a", "n", "g", "e", "d", "\n">>
    [] s = "Fixed the cache TTL for all tenants.\n\n## What Changed\nTTL is 60 s\n## Rationale\nStale reads\n## Risks\nNone" ->
         <<"F", "i", "x", "e", "d", " ", "t", "h", "e", " ", "c", "a", "c", "h", "e", " ", "T", "T", "L", " ", "f", "o", "r", " ", "a", "l", "l", " ", "t", "e", "n", "a", "n", "t", "s", ".", "\n", "\n", "#", "#", " ", "W", "h", "a", "t", " ", "C", "h", "a", "n", "g", "e", "d", "\n", "T", "T", "L", " ", "i", "s", " ", "6", "0", " ", "s", "\n", "#", "#", " ", "R", "a", "t", "i", "o", "n", "a", "l", "e", "\n", "S", "t", "a", "l", "e", " ", "r", "e", "a", "d", "s", "\n", "#", "#", " ", "R", "i", "s", "k", "s", "\n", "N", "o", "n", "e">>
    [] s = "Fixed the cache TTL for all tenants.\n\n## Risks\n" ->
         <<"F", "i", "x", "e", "d", " ", "t", "h", "e", " ", "c", "a", "c", "h", "e", " ", "T", "T", "L", " ", "f", "o", "r", " ", "a", "l", "l", " ", "t", "e", "n", "a", "n", "t", "s", ".", "\n", "\n", "#", "#", " ", "R", "i", "s", "k", "s", "\n">>
    [] s = "Fixed the cache TTL for all tenants." ->
         <<"F", "i", "x", "e", "d", " ", "t", "h", "e", " ", "c", "a", "c", "h", "e", " ", "T", "T", "L", " ", "f", "o", "r", " ", "a", "l", "l", " ", "t", "e", "n", "a", "n", "t", "s", ".">>
    [] s = "TTL is 60 s" ->
         <<"T", "T", "L", " ", "i", "s", " ", "6", "0", " ", "s">>
    [] s = "Stale reads" ->
         <<"S", "t", "a", "l", "e", " ", "r", "e", "a", "d", "s">>
    [] s = "None" ->
         <<"N", "o", "n", "e">>

\* the strings Chars knows
KnownStrings ==
  {"", " ", "fix", "FIX", "x", "zz", "infra", "Deploy Fix", "cache", "Infra", "Audit",
   "Fixed TTL", "Notes", "misc", "hotFIX", "ops", "Fix cache TTL",
   "Rollback plan is documented in the runbook", "0a1b2c3d4e", "0a1b2c3", "Incident in prod",
   "Incident", "incident", "P1", "p1", "v1.2.0", "Autumn", "rollback", "hotfix", "flip",
   "feature flag", "milestone", "release", "major", "decision", "rfc", "feature", "security",
   "performance", "docs", "Rollback database migration", "Fix rollback incident",
   "Hotfix login", "Flip feature flag", "Release v2 fix", "Major decision", "Decision log",
   "RFC 12", "Update readme", "Prefix cleanup", "no changes", "Milestone", "Rollback",
   "Decision", "Flip", "what changed", "changes", "rationale", "why", "decisions", "risk",
   "risks", "mitigation", "mitigations", "## What Changed\n",
   "Fixed the cache TTL for all tenants.\n\n## What Changed\nTTL is 60 s\n## Rationale\nStale reads\n## Risks\nNone",
   "Fixed the cache TTL for all tenants.\n\n## Risks\n",
   "Fixed the cache TTL for all tenants.", "TTL is 60 s", "Stale reads", "None"}

\* the string made of the code units t
Str(t) == CHOOSE s \in KnownStrings : Chars(s) = t

UpperCase == <<"A", "B", "C", "D", "E", "F", "G", "H", "I", "J", "K", "L", "M",
               "N", "O", "P", "Q", "R", "S", "T", "U", "V", "W", "X", "Y", "Z">>

LowerCase == <<"a", "b", "c", "d", "e", "f", "g", "h", "i", "j", "k", "l", "m",
               "n", "o", "p", "q", "r", "s", "t", "u", "v", "w", "x", "y", "z">>

\* String.prototype.toLowerCase
ToLowerCase(t) ==
  [i \in 1..Len(t) |->
     IF \E k \in 1..Len(UpperCase) : UpperCase[k] = t[i]
     THEN LowerCase[CHOOSE k \in 1..Len(UpperCase) : UpperCase[k] = t[i]]
     ELSE t[i]]

WhiteSpace == {" ", "\t", "\n"}

\* String.prototype.trim
RECURSIVE Trim(_)
Trim(t) ==
  IF t = << >> THEN t
  ELSE IF Head(t) \in WhiteSpace THEN Trim(Tail(t))
  ELSE IF t[Len(t)] \in WhiteSpace THEN Trim(SubSeq(t, 1, Len(t) - 1))
  ELSE t

\* String.prototype.includes
Includes(t, part) ==
  \E i \in 0..(Len(t) - Len(part)) : SubSeq(t, i + 1, i + Len(part)) = part

\* s.includes(part) on strings
StrIncludes(s, part) == Includes(Chars(s), Chars(part))

\* s.toLowerCase() on strings
StrLower(s) == Str(ToLowerCase(Chars(s)))

\* s.substring(0, n)
Substring0(s, n) == Str(SubSeq(Chars(s), 1, IF n < Len(Chars(s)) THEN n ELSE Len(Chars(s))))

----------------------------------------------------------------------------
(* searchEntries (services/securityService.ts, StoryWriterService) *)

SearchEntry(id, title, date, executiveSummary, tags) ==
  Merge(Seed(id, title, date, "routine", "lux", date),
        [executiveSummary |-> executiveSummary, tags |-> tags])

\* stored entries whose text differs in case and in where the text sits
SearchPool ==
  { SearchEntry("s1", "Deploy Fix", 1, "cache", <<"Infra">>),
    SearchEntry("s2", "Audit", 3, "Fixed TTL", << >>),
    SearchEntry("s3", "Notes", 2, "misc", <<"hotFIX", "ops">>) }

\* every store made of distinct entries of the pool, in every insertion order
SearchStores ==
  {st \in UNION {[1..n -> SearchPool] : n \in 0..Cardinality(SearchPool)} :
     \A i, j \in 1..Len(st) : i # j => st[i] # st[j]}

Queries == {"", " ", "fix", "FIX", "x", "zz", "infra"}

EntryMatchesTitleOnly(entry, lowerCaseQuery) ==
  Includes(ToLowerCase(Chars(entry.title)), lowerCaseQuery)

\* the predicate of allEntries.filter in searchEntries
EntryMatches(entry, lowerCaseQuery) ==
  \/ Includes(ToLowerCase(Chars(entry.title)), lowerCaseQuery)
  \/ Includes(ToLowerCase(Chars(entry.executiveSummary)), lowerCaseQuery)
  \/ \E k \in 1..Len(entry.tags) : Includes(ToLowerCase(Chars(entry.tags[k])), lowerCaseQuery)

SearchEntriesResult(allEntries, query) ==
  IF Trim(Chars(query)) = << >>
  THEN allEntries
  ELSE SelectSeq(allEntries, LAMBDA e : EntryMatches(e, ToLowerCase(Chars(query))))

\* searchEntries(query): it lists through getEntries, which fills the cache
SearchEntries(query) ==
  /\ sortedEntriesCache' = Some(GetEntriesResult)
  /\ lastOp' = [op |-> "searchEntries", query |-> query,
                result |-> SearchEntriesResult(GetEntriesResult, query)]
  /\ UNCHANGED <<entries, storage, auditLogs, auditStorage, config, clock, uuidCount>>
  /\ UNCHANGED <<swVars, rlVars>>

----------------------------------------------------------------------------
(* The timeline view (components/StoryWriterTimeline.tsx) *)

TimelineFilters == {"all"} \cup EntryTypes

\* entries.filter(entry => (filter === 'all' || entry.type === filter) && entry.status !== 'archived')
FilteredEntriesAnyStatus(list, filter) ==
  SelectSeq(list, LAMBDA e : filter = "all" \/ e.type = filter)

FilteredEntries(list, filter) ==
  SelectSeq(list, LAMBDA e : (filter = "all" \/ e.type = filter) /\ e.status # "archived")

----------------------------------------------------------------------------
(* publish and supersede: operations of the ledger that the store's code does *)
(* not have; they follow sections 4.1, 4.2 and 5 of the specification.        *)

\* authorize(action, role)
Authorize(action, role) ==
  CASE action = "publish" -> role \in {"lux", "mini-lux"}
    [] action = "delete" -> role = "lux"
    [] OTHER -> role \in Roles

Supersedes(e) == IF "supersedesEntryId" \in DOMAIN e THEN e.supersedesEntryId ELSE NoId

\* publish(draftId, role): draft to published, one audit record
Publish(id, role) ==
  LET allowed == Authorize("publish", role)
      isDraft == MapHas(entries, id) /\ MapGet(entries, id).status = "draft"
  IN  /\ OpsLeft
      /\ clock' = clock + 1
      /\ IF allowed /\ isDraft
         THEN /\ entries' = MapSet(entries, [MapGet(entries, id) EXCEPT !.status = "published"])
              /\ auditLogs' = LogAudit(auditLogs, "publish", id, role)
              /\ auditStorage' = SaveAuditLogs(auditLogs', TRUE)
              /\ SaveToStorage(entries', TRUE)
         ELSE UNCHANGED <<entries, auditLogs, auditStorage, storage, sortedEntriesCache>>
      /\ lastOp' = [op |-> "publish", arg |-> id, role |-> role,
                    result |-> IF ~allowed THEN "AuthorizationError"
                               ELSE IF ~isDraft THEN "Error" ELSE "ok"]
      /\ UNCHANGED <<uuidCount, config, swVars, rlVars>>

SupersedeRemovesOld(m, archived, created) == Append(MapDelete(m, archived.id), created)

SupersedeArchivesOnly(m, archived, created) == MapSet(m, archived)

\* both records of a supersede, written together
SupersedeBoth(m, archived, created) == MapSet(MapSet(m, archived), created)

\* supersede(oldId, newEntry): the new entry and the archival of the old one, in one unit
Supersede(oldId, newEntry) ==
  LET now == clock + 1
      ok == /\ MapHas(entries, oldId)
            /\ MapGet(entries, oldId).status # "archived"
            /\ Validate(newEntry).isValid
      created == Merge(newEntry,
                       [id |-> UuidOf(uuidCount + 1), createdAt |-> now, updatedAt |-> now,
                        version |-> 1, supersedesEntryId |-> oldId,
                        status |-> IF newEntry.status = "published" THEN "published" ELSE "draft"])
      archived == [MapGet(entries, oldId) EXCEPT !.status = "archived"]
  IN  /\ OpsLeft
      /\ uuidCount < Len(UuidPool)
      /\ clock' = now
      /\ IF ok
         THEN /\ entries' = SupersedeBoth(entries, archived, created)
              /\ auditLogs' = LogAudit(LogAudit(auditLogs, "create", created.id, created.author),
                                       "archive", oldId, created.author)
              /\ auditStorage' = SaveAuditLogs(auditLogs', TRUE)
              /\ uuidCount' = uuidCount + 1
              /\ SaveToStorage(entries', TRUE)
         ELSE UNCHANGED <<entries, auditLogs, auditStorage, uuidCount, storage,
                          sortedEntriesCache>>
      /\ lastOp' = [op |-> "supersede", arg |-> oldId,
                    id |-> IF ok THEN created.id ELSE NoId, ok |-> ok]
      /\ UNCHANGED <<config, swVars, rlVars>>

----------------------------------------------------------------------------
(* The draft/published store with asynchronous writes (unnamed/part_011) *)

\* the number of calls of the asynchronous store in one run
MaxTasks == 2

SwSeed(id, title) ==
  [id |-> id, title |-> title, dateUtc |-> 1, executiveSummary |-> "summary",
   whatChanged |-> "changes", decisionsRationale |-> "rationale",
   risksMitigations |-> "risks", revision |-> 1, status |-> "active"]

swInitialEntries == << SwSeed("1", "Inception"), SwSeed("2", "Deploy") >>

\* SHA-256 of the concatenated content, taken as collision-free
GenerateIntegrityHash(entry) ==
  <<entry.title, entry.dateUtc, entry.executiveSummary, entry.whatChanged,
    entry.decisionsRationale, entry.risksMitigations>>

\* embedText(text): a vector that depends on the text alone
EmbedText(text) == <<"embedding", text>>

ProcessEmbeddings(entry) ==
  Merge(entry, [embeddings |->
                  [executiveSummary |-> EmbedText(entry.executiveSummary),
                   decisionsRationale |-> EmbedText(entry.decisionsRationale),
                   risksMitigations |-> EmbedText(entry.risksMitigations)]])

HashedOnce(entry) ==
  IF "hash" \in DOMAIN entry THEN entry
  ELSE Merge(entry, [hash |-> GenerateIntegrityHash(entry)])

\* entry.hash = await this.generateIntegrityHash(entry)
Hashed(entry) == Merge(entry, [hash |-> GenerateIntegrityHash(entry)])

\* the fields an editor changes
UpdateInputs ==
  { [title |-> "Retitled"], [executiveSummary |-> "Rewritten"],
    [title |-> "Retitled", executiveSummary |-> "Rewritten"] }

\* what the editor passes to updateEntry: its copy of the entry with the changes
\* applied (updateData: StoryWriterEntry), or the changed fields alone
UpdateData(id, changed, whole) ==
  IF whole /\ MapHas(swEntries, id) THEN Merge(MapGet(swEntries, id), changed) ELSE changed

CreateInputs ==
  { [title |-> "Created", dateUtc |-> 2, executiveSummary |-> "summary",
     whatChanged |-> "changes", decisionsRationale |-> "rationale",
     risksMitigations |-> "risks", revision |-> 5, status |-> "active"] }

SwIds == {swEntries[i].id : i \in 1..Len(swEntries)}

SwUuid(n) == <<"n1", "n2", "n3", "n4">>[n]

IdsOfDrafts == {swDrafts[i].id : i \in 1..Len(swDrafts)}

Pending == {i \in 1..Len(swTasks) : swTasks[i].pc # "done"}

\* createEntry up to its first await
SwCreateEntry(entryData) ==
  LET n == Len(swTasks) + 1
      newEntry == Merge(entryData, [id |-> SwUuid(n), revision |-> 1, isDraft |-> FALSE])
  IN  /\ Len(swTasks) < MaxTasks
      /\ swTasks' = Append(swTasks, [op |-> "createEntry", pc |-> "hash", id |-> newEntry.id,
                                     data |-> entryData, entry |-> newEntry,
                                     during |-> Pending])
      /\ UNCHANGED <<swEntries, swDrafts>>
      /\ UNCHANGED <<storeVars, rlVars>>

\* updateEntry up to its first await; an unknown id throws
SwUpdateEntry(id, changed, whole) ==
  LET updateData == UpdateData(id, changed, whole)
  IN  /\ Len(swTasks) < MaxTasks
      /\ IF MapHas(swEntries, id)
         THEN swTasks' = Append(swTasks, [op |-> "updateEntry", pc |-> "hash", id |-> id,
                                          data |-> updateData, changed |-> changed,
                                          entry |-> Merge(MapGet(swEntries, id), updateData),
                                          during |-> Pending])
         ELSE swTasks' = Append(swTasks, [op |-> "updateEntry", pc |-> "done", id |-> id,
                                          data |-> updateData, changed |-> changed,
                                          entry |-> Null,
                                          during |-> Pending, error |-> "not found"])
      /\ UNCHANGED <<swEntries, swDrafts>>
      /\ UNCHANGED <<storeVars, rlVars>>

\* the digest resolves: hash is set, processEmbeddings runs, and the call awaits again
SwHashed(i) ==
  /\ swTasks[i].pc = "hash"
  /\ swTasks' = [swTasks EXCEPT ![i].pc = "embed",
                                 ![i].entry = ProcessEmbeddings(Hashed(@))]
  /\ UNCHANGED <<swEntries, swDrafts>>
  /\ UNCHANGED <<storeVars, rlVars>>

\* entries.set(id, entry); saveToStorage
SwStored(i) ==
  /\ swTasks[i].pc = "embed"
  /\ swEntries' = MapSet(swEntries, swTasks[i].entry)
  /\ swTasks' = [swTasks EXCEPT ![i].pc = "done"]
  /\ UNCHANGED swDrafts
  /\ UNCHANGED <<storeVars, rlVars>>

\* the number of drafts saveDraft creates in one run
MaxDrafts == 2

DraftUuid(n) == <<"d1", "d2", "d3", "d4">>[n]

\* what the editor hands to saveDraft: a new draft, or changes to a draft it holds
DraftInputs(ids) ==
  { [title |-> "Drafted", dateUtc |-> 3, executiveSummary |-> "summary",
     whatChanged |-> "changes", decisionsRationale |-> "rationale",
     risksMitigations |-> "risks"] }
  \cup { [id |-> id, title |-> "Redrafted"] : id \in ids }

\* saveDraft: no await before the write, so the call is one step
SwSaveDraft(entryData) ==
  LET given == "id" \in DOMAIN entryData
      id == IF given THEN entryData.id ELSE DraftUuid(uuidCount + 1)
      merged == IF MapHas(swDrafts, id) THEN Merge(MapGet(swDrafts, id), entryData)
                ELSE entryData
      newDraft == Merge(merged, [id |-> id, isDraft |-> TRUE])
  IN  /\ given \/ uuidCount < MaxDrafts
      /\ uuidCount' = IF given THEN uuidCount ELSE uuidCount + 1
      /\ swDrafts' = MapSet(swDrafts, newDraft)
      /\ UNCHANGED <<swEntries, swTasks>>
      /\ UNCHANGED <<entries, sortedEntriesCache, storage, auditLogs, auditStorage, config,
                     clock, lastOp, rlVars>>

\* approveDraft up to the first await of the createEntry it calls: the draft is
\* deleted, and the entry to publish is held by the suspended call alone
SwApproveDraft(id) ==
  LET n == Len(swTasks) + 1
      draft == MapGet(swDrafts, id)
  IN  /\ Len(swTasks) < MaxTasks
      /\ IF MapHas(swDrafts, id)
         THEN /\ swDrafts' = MapDelete(swDrafts, id)
              /\ swTasks' = Append(swTasks,
                               [op |-> "approveDraft", pc |-> "hash", id |-> SwUuid(n),
                                draft |-> id, data |-> draft,
                                entry |-> Merge(draft, [id |-> SwUuid(n), revision |-> 1,
                                                        isDraft |-> FALSE]),
                                during |-> Pending])
         ELSE /\ UNCHANGED swDrafts
              /\ swTasks' = Append(swTasks,
                               [op |-> "approveDraft", pc |-> "done", id |-> id,
                                draft |-> id, data |-> Null, entry |-> Null,
                                during |-> Pending, error |-> "not found"])
      /\ UNCHANGED swEntries
      /\ UNCHANGED <<storeVars, rlVars>>

\* deleteDraft
SwDeleteDraft(id) ==
  /\ swDrafts' = MapDelete(swDrafts, id)
  /\ UNCHANGED <<swEntries, swTasks>>
  /\ UNCHANGED <<storeVars, rlVars>>

\* JSON.parse(jsonString): the text is not JSON and the parse throws, or it denotes
\* null, an array, a string, or an object (a record of its members)
NotJson == [json |-> "invalid"]

JsonNull == [json |-> "null"]

JsonText == [json |-> "string"]

JsonArray(items) == [json |-> "array", items |-> items]

\* Array.isArray(v)
IsArray(v) == "json" \in DOMAIN v /\ v.json = "array"

\* items.forEach(e => map.set(e.id, e)) into a new Map; e.id throws on null
RECURSIVE CollectById(_, _)
CollectById(items, map) ==
  IF items = << >> THEN map ELSE CollectById(Tail(items), MapSet(map, Head(items)))

ForEachThrows(items) == \E i \in 1..Len(items) : items[i] = JsonNull

\* importData: the collections after the call and the success it reports
ImportData(data) ==
  LET same == [entries |-> swEntries, drafts |-> swDrafts]
      failed == Merge(same, [success |-> FALSE])
  IN  IF data = NotJson \/ data = JsonNull THEN failed
      ELSE IF "entries" \notin DOMAIN data \/ ~IsArray(data.entries) THEN failed
      ELSE IF ForEachThrows(data.entries.items) THEN failed
      ELSE LET newEntries == CollectById(data.entries.items, << >>)
           IN  IF "drafts" \in DOMAIN data /\ IsArray(data.drafts)
               THEN IF ForEachThrows(data.drafts.items)
                    THEN [success |-> FALSE, entries |-> newEntries, drafts |-> swDrafts]
                    ELSE [success |-> TRUE, entries |-> newEntries,
                          drafts |-> CollectById(data.drafts.items, << >>)]
               ELSE [success |-> TRUE, entries |-> newEntries, drafts |-> swDrafts]

\* the documents handed to importData
ImportDocs ==
  LET kept == SwSeed("1", "Inception")
      new == SwSeed("7", "Imported")
      renamed == SwSeed("7", "Imported twice")
      draft == Merge(SwSeed("8", "Imported draft"), [isDraft |-> TRUE])
  IN  { NotJson,
        JsonNull,
        [drafts |-> JsonArray(<<draft>>)],
        [entries |-> JsonText],
        [entries |-> JsonArray(<<new, JsonNull>>)],
        [entries |-> JsonArray(<<kept, new>>)],
        [entries |-> JsonArray(<<new>>), drafts |-> JsonArray(<<draft, JsonNull>>)],
        [entries |-> JsonArray(<<new, renamed>>), drafts |-> JsonArray(<<draft>>)] }

SwImportData(data) ==
  LET result == ImportData(data)
  IN  /\ OpsLeft
      /\ clock' = clock + 1
      /\ swEntries' = result.entries
      /\ swDrafts' = result.drafts
      /\ lastOp' = [op |-> "importData", data |-> data, success |-> result.success]
      /\ UNCHANGED swTasks
      /\ UNCHANGED <<entries, sortedEntriesCache, storage, auditLogs, auditStorage, config,
                     uuidCount, rlVars>>

\* crypto.subtle.digest rejects (or crypto.subtle is undefined outside a secure
\* context): the await throws, and the call ends without having written
SwDigestRejected(i) ==
  /\ swTasks[i].pc = "hash"
  /\ swTasks' = [swTasks EXCEPT ![i] = Merge(@, [pc |-> "done", error |-> "digest"])]
  /\ UNCHANGED <<swEntries, swDrafts>>
  /\ UNCHANGED <<storeVars, rlVars>>

----------------------------------------------------------------------------
(* Similarity search (services/embeddingService.ts, unnamed/part_011) *)

RECURSIVE SumOver(_, _)
SumOver(n, f) == IF n = 0 THEN 0 ELSE f[n] + SumOver(n - 1, f)

\* the sum over i of vecA[i] * vecB[i]
Dot(vecA, vecB) == SumOver(Len(vecA), [i \in 1..Len(vecA) |-> vecA[i] * vecB[i]])

\* a floating-point number carries finitely many digits: Math.sqrt returns the
\* representable number nearest to the root, here a multiple of 1 / SqrtGrid
SqrtGrid == 10

\* Math.sqrt(x) for an integer x >= 0, in units of 1 / SqrtGrid
Sqrt(x) ==
  IF x = 0 THEN 0
  ELSE CHOOSE r \in 1..(x * SqrtGrid) :
         /\ (2 * r - 1) * (2 * r - 1) <= 4 * x * SqrtGrid * SqrtGrid
         /\ 4 * x * SqrtGrid * SqrtGrid < (2 * r + 1) * (2 * r + 1)

\* a score is kept as the fraction num / den, with den > 0
ZeroScore == [num |-> 0, den |-> 1]

CosineSimilarityShorterLength(vecA, vecB) ==
  LET n == IF Len(vecA) < Len(vecB) THEN Len(vecA) ELSE Len(vecB)
      a == SubSeq(vecA, 1, n)
      b == SubSeq(vecB, 1, n)
      divisor == Sqrt(Dot(a, a)) * Sqrt(Dot(b, b))
  IN  IF divisor = 0 THEN ZeroScore
      ELSE [num |-> Dot(a, b) * SqrtGrid * SqrtGrid, den |-> divisor]

\* cosineSimilarity(vecA, vecB): dotProduct / (Math.sqrt(normA) * Math.sqrt(normB)),
\* and 0 for a missing vector (<< >>), vectors of different lengths or a zero divisor
CosineSimilarity(vecA, vecB) ==
  IF Len(vecA) # Len(vecB) THEN ZeroScore
  ELSE LET divisor == Sqrt(Dot(vecA, vecA)) * Sqrt(Dot(vecB, vecB))
       IN  IF divisor = 0 THEN ZeroScore
           ELSE [num |-> Dot(vecA, vecB) * SqrtGrid * SqrtGrid, den |-> divisor]

\* x < y for two scores
ScoreLess(x, y) == x.num * y.den < y.num * x.den

\* sort((a, b) => b.score - a.score): stable
RECURSIVE SortByScoreDesc(_)
SortByScoreDesc(s) ==
  IF Len(s) <= 1 THEN s
  ELSE LET rest == SortByScoreDesc(Tail(s))
           k == Cardinality({i \in 1..Len(rest) : ScoreLess(Head(s).score, rest[i].score)})
       IN  SubSeq(rest, 1, k) \o <<Head(s)>> \o SubSeq(rest, k + 1, Len(rest))

\* entry.embeddings?.executiveSummary is there
HasVector(e) == "embeddings" \in DOMAIN e /\ "executiveSummary" \in DOMAIN e.embeddings

\* Array.prototype.slice(0, n) for n >= 0
Slice(s, n) == SubSeq(s, 1, IF n < Len(s) THEN n ELSE Len(s))

CandidatesWithTarget(list, targetEntry) == SelectSeq(list, HasVector)

\* getEntries().filter(e => e.id !== targetEntry.id && e.embeddings?.executiveSummary)
Candidates(list, targetEntry) ==
  SelectSeq(list, LAMBDA e : e.id # targetEntry.id /\ HasVector(e))

FindSimilarEntriesResult(targetEntry, topK) ==
  IF ~HasVector(targetEntry) THEN << >>
  ELSE LET allEntries == Candidates(swEntries, targetEntry)
           scores == [i \in 1..Len(allEntries) |->
                        [entry |-> allEntries[i],
                         score |-> CosineSimilarity(targetEntry.embeddings.executiveSummary,
                                                    allEntries[i].embeddings.executiveSummary)]]
       IN  Slice(SortByScoreDesc(scores), topK)

FindSimilarEntries(targetEntry, topK) ==
  /\ lastOp' = [op |-> "findSimilarEntries", target |-> targetEntry, topK |-> topK,
                result |-> FindSimilarEntriesResult(targetEntry, topK)]
  /\ UNCHANGED <<entries, sortedEntriesCache, storage, auditLogs, auditStorage, config, clock,
                 uuidCount>>
  /\ UNCHANGED <<swVars, rlVars>>

\* embedding vectors: two of one direction, a zero vector, and one of another length
Vectors == {<<1, 0>>, <<0, 1>>, <<1, 1>>, <<2, 2>>, <<0, 0>>, <<1, 1, 1>>}

WithVector(e, v) == Merge(e, [embeddings |-> [executiveSummary |-> v]])

\* an entry under each id, with a vector or without
SimilarEntries(id) ==
  {SwSeed(id, "Entry")} \cup {WithVector(SwSeed(id, "Entry"), v) : v \in Vectors}

SimilarStores ==
  {<<a, b, c>> : a \in SimilarEntries("1"), b \in SimilarEntries("2"),
                 c \in SimilarEntries("3")}

\* the number of results asked for
TopKs == 0..3

----------------------------------------------------------------------------
(* AutomationService (services/automationService.ts) *)

\* the config the service is constructed with
DefaultConfig ==
  [enableAutomation |-> TRUE, autoPublish |-> FALSE, defaultAuthor |-> "mini-lux",
   includeReferences |-> TRUE]

\* setConfig(config): { ...this.config, ...config }
ConfigInputs ==
  { [enableAutomation |-> FALSE], [autoPublish |-> TRUE, defaultAuthor |-> "scribe"],
    [includeReferences |-> FALSE] }

SetConfig(c) ==
  /\ config' = Merge(config, c)
  /\ lastOp' = [op |-> "setConfig"]
  /\ UNCHANGED <<entries, sortedEntriesCache, storage, auditLogs, auditStorage, clock, uuidCount>>
  /\ UNCHANGED <<swVars, rlVars>>

\* x || fallback for a string or null x
OrElse(x, fallback) == IF x = Null \/ x = Some("") THEN fallback ELSE x[1]

\* determineEntryTypeFromPR(pr), for a pr with a title
DetermineEntryTypeFromPR(pr) ==
  LET title == ToLowerCase(Chars(pr.title[1]))
      body == ToLowerCase(Chars(OrElse(pr.body, "")))
      In(t, word) == Includes(t, Chars(word))
  IN  IF In(title, "rollback") \/ In(body, "rollback") THEN "rollback"
      ELSE IF In(title, "incident") \/ In(title, "hotfix") \/ In(title, "fix") THEN "incident"
      ELSE IF In(title, "flip") \/ In(title, "feature flag") THEN "flip"
      ELSE IF In(title, "milestone") \/ In(title, "release") \/ In(title, "major")
           THEN "milestone"
      ELSE IF In(title, "decision") \/ In(title, "rfc") THEN "decision"
      ELSE "routine"

\* determineEntryTypeFromIssue(issue), for an issue with a title and labels
DetermineEntryTypeFromIssue(issue) ==
  LET title == ToLowerCase(Chars(issue.title[1]))
      labels == issue.labels[1]
      labelNames == [i \in 1..Len(labels) |-> ToLowerCase(Chars(labels[i]))]
      Labelled(word) == \E i \in 1..Len(labelNames) : labelNames[i] = Chars(word)
      In(t, word) == Includes(t, Chars(word))
  IN  IF Labelled("incident") \/ In(title, "incident") THEN "incident"
      ELSE IF Labelled("milestone") \/ In(title, "milestone") THEN "milestone"
      ELSE IF Labelled("decision") \/ In(title, "decision") THEN "decision"
      ELSE "routine"

\* body.split('\n\n')[0]
FirstParagraph(t) ==
  LET breaks == {i \in 1..(Len(t) - 1) : t[i] = "\n" /\ t[i + 1] = "\n"}
  IN  IF breaks = {} THEN t
      ELSE SubSeq(t, 1, (CHOOSE i \in breaks : \A j \in breaks : i <= j) - 1)

\* generateExecutiveSummary(pr)
GenerateExecutiveSummary(pr) ==
  LET firstParagraph == Trim(FirstParagraph(Chars(OrElse(pr.body, ""))))
  IN  IF Len(firstParagraph) > 20
      THEN Str(SubSeq(firstParagraph, 1,
                      IF Len(firstParagraph) < 300 THEN Len(firstParagraph) ELSE 300))
      ELSE "PR #" \o pr.title[1] \o " was merged, implementing the described changes."

\* the first index from p on that holds no white space, Len(t) + 1 when there is none
SkipWhiteSpace(t, p) ==
  LET stops == {k \in p..Len(t) : t[k] \notin WhiteSpace}
  IN  IF stops = {} THEN Len(t) + 1 ELSE CHOOSE k \in stops : \A m \in stops : k <= m

\* /##?\s*(keywords)\s*\n([\s\S]*?)(?=\n##|$)/i tried at index i: the second group
\* of the match, or Null. The heading is "#" or "##", white space, a keyword in
\* any case, and white space up to its last "\n"; the group runs from there to the
\* first "\n##" or to the end of the text.
SectionAt(t, i, keywords) ==
  IF t[i] # "#" THEN Null
  ELSE LET p == IF i < Len(t) /\ t[i + 1] = "#" THEN i + 2 ELSE i + 1
           q == SkipWhiteSpace(t, p)
           NewLines(r) == {n \in r..(SkipWhiteSpace(t, r) - 1) : t[n] = "\n"}
           hits == {k \in keywords :
                      /\ q + Len(Chars(k)) - 1 <= Len(t)
                      /\ ToLowerCase(SubSeq(t, q, q + Len(Chars(k)) - 1)) = Chars(k)
                      /\ NewLines(q + Len(Chars(k))) # {}}
       IN  IF hits = {} THEN Null
           ELSE LET r == q + Len(Chars(CHOOSE k \in hits : TRUE))
                    g == 1 + CHOOSE n \in NewLines(r) : \A m \in NewLines(r) : m <= n
                    ends == {e \in g..(Len(t) + 1) :
                               \/ e = Len(t) + 1
                               \/ /\ e + 2 <= Len(t)
                                  /\ SubSeq(t, e, e + 2) = <<"\n", "#", "#">>}
                IN  Some(SubSeq(t, g, (CHOOSE e \in ends : \A m \in ends : e <= m) - 1))

\* body.match(pattern): the second group of the leftmost match, or Null
SectionMatch(t, keywords) ==
  LET starts == {i \in 1..Len(t) : SectionAt(t, i, keywords) # Null}
  IN  IF starts = {} THEN Null
      ELSE SectionAt(t, CHOOSE i \in starts : \A m \in starts : i <= m, keywords)

\* match ? match[2].trim() : fallback
SectionOr(pr, keywords, fallback) ==
  LET match == SectionMatch(Chars(OrElse(pr.body, "")), keywords)
  IN  IF match # Null THEN Str(Trim(match[1])) ELSE fallback

\* extractWhatChanged: /##?\s*(What Changed|Changes)\s*\n.../i
ExtractWhatChanged(pr) ==
  SectionOr(pr, {"what changed", "changes"}, "See PR description for details.")

\* extractDecisionsRationale: /##?\s*(Rationale|Why|Decisions?)\s*\n.../i
ExtractDecisionsRationale(pr) ==
  SectionOr(pr, {"rationale", "why", "decision", "decisions"},
            "See PR discussion for rationale.")

\* extractRisksMitigations: /##?\s*(Risks?|Mitigations?)\s*\n.../i
ExtractRisksMitigations(pr) ==
  SectionOr(pr, {"risk", "risks", "mitigation", "mitigations"},
            "Standard deployment risks apply.")

\* generateTags(pr, entryType)
GenerateTags(pr, entryType) ==
  LET title == ToLowerCase(Chars(pr.title[1]))
      If(word, tag) == IF Includes(title, Chars(word)) THEN <<tag>> ELSE << >>
  IN  <<"deploy", "automated">> \o If("feature", "feature") \o If("fix", "bugfix")
        \o If("security", "security") \o If("performance", "optimization")
        \o If("docs", "doc-update") \o <<entryType>>

\* [...new Set(tags)]: the first occurrence of each tag
RECURSIVE Unique(_)
Unique(t) ==
  IF t = << >> THEN t
  ELSE LET init == Unique(SubSeq(t, 1, Len(t) - 1))
       IN  IF t[Len(t)] \in Range(init) THEN init ELSE Append(init, t[Len(t)])

\* generateTagsFromIssue(issue, entryType)
GenerateTagsFromIssue(issue, entryType) ==
  Unique(<<"automated">>
           \o [i \in 1..Len(issue.labels[1]) |-> StrLower(issue.labels[1][i])]
           \o <<entryType>>)

\* the status of an ingested entry
IngestStatus == IF config.autoPublish THEN "published" ELSE "draft"

\* the entry createEntryFromPRMerge hands to saveEntry ("*" stands for U+2022)
PREntry(pr) ==
  LET entryType == DetermineEntryTypeFromPR(pr)
      references ==
        IF config.includeReferences
        THEN << [id |-> "PR#" \o ToString(pr.number), type |-> "external",
                 url |-> pr.html_url, description |-> "Pull Request #" \o ToString(pr.number),
                 timestamp |-> pr.merged_at],
                [id |-> Substring0(pr.head[1].sha, 7), type |-> "commit-hash",
                 description |-> "Merge commit for PR #" \o ToString(pr.number)] >>
        ELSE << >>
  IN  [id |-> UuidOf(uuidCount + 1), title |-> "Deploy * " \o pr.title[1], date |-> clock + 1,
       executiveSummary |-> GenerateExecutiveSummary(pr),
       whatChanged |-> ExtractWhatChanged(pr),
       decisionsRationale |-> ExtractDecisionsRationale(pr),
       risksMitigations |-> ExtractRisksMitigations(pr),
       references |-> references, type |-> entryType, author |-> config.defaultAuthor,
       version |-> 1, status |-> IngestStatus, tags |-> GenerateTags(pr, entryType),
       createdAt |-> clock + 1, updatedAt |-> clock + 1]

\* the entry createEntryFromIssueClosure hands to saveEntry
IssueEntry(issue) ==
  LET entryType == DetermineEntryTypeFromIssue(issue)
      references ==
        IF config.includeReferences
        THEN << [id |-> "Issue#" \o ToString(issue.number), type |-> "external",
                 url |-> issue.html_url,
                 description |-> "Issue #" \o ToString(issue.number)] >>
        ELSE << >>
  IN  [id |-> UuidOf(uuidCount + 1),
       title |-> (IF entryType = "incident" THEN "Incident" ELSE "Milestone")
                   \o " * " \o issue.title[1],
       date |-> clock + 1,
       executiveSummary |-> OrElse(issue.body, "Issue #" \o ToString(issue.number)
                                                 \o " resolved: " \o issue.title[1]),
       whatChanged |-> "Issue #" \o ToString(issue.number) \o " was closed.",
       decisionsRationale |-> "See issue discussion for context.",
       risksMitigations |-> "N/A",
       references |-> references, type |-> entryType, author |-> config.defaultAuthor,
       version |-> 1, status |-> IngestStatus,
       tags |-> GenerateTagsFromIssue(issue, entryType),
       createdAt |-> clock + 1, updatedAt |-> clock + 1]

\* the entry createEntryFromRelease hands to saveEntry
ReleaseEntry(release) ==
  LET references ==
        IF config.includeReferences
        THEN << [id |-> release.tag_name, type |-> "external", url |-> release.html_url,
                 description |-> "Release " \o release.tag_name,
                 timestamp |-> release.published_at] >>
        ELSE << >>
  IN  [id |-> UuidOf(uuidCount + 1),
       title |-> "Release * " \o OrElse(release.name, release.tag_name),
       date |-> clock + 1,
       executiveSummary |-> OrElse(release.body, "Release " \o release.tag_name \o " published."),
       whatChanged |-> "Released version " \o release.tag_name \o ".",
       decisionsRationale |-> "Milestone release per project roadmap.",
       risksMitigations |-> "Standard release process followed.",
       references |-> references, type |-> "milestone", author |-> config.defaultAuthor,
       version |-> 1, status |-> IngestStatus, tags |-> <<"release", "deploy", "milestone">>,
       createdAt |-> clock + 1, updatedAt |-> clock + 1]

\* how a call ends: "null" (return null), "threw" (a TypeError on a property of
\* undefined or null rejects the promise) or "saved" (the saved entry is returned)
PROutcomeNoMergeGuard(event) ==
  IF ~config.enableAutomation THEN "null"
  ELSE IF event.pull_request = Null THEN "threw"
  ELSE IF event.pull_request[1].title = Null THEN "threw"
  ELSE IF config.includeReferences /\ event.pull_request[1].head = Null THEN "threw"
  ELSE "saved"

PROutcome(event) ==
  IF ~config.enableAutomation THEN "null"
  ELSE IF event.pull_request = Null THEN "threw"
  ELSE IF event.pull_request[1].merged_at = Null THEN "null"
  ELSE IF event.pull_request[1].title = Null THEN "threw"
  ELSE IF config.includeReferences /\ event.pull_request[1].head = Null THEN "threw"
  ELSE "saved"

IssueOutcome(event) ==
  IF ~config.enableAutomation \/ event.action # "closed" THEN "null"
  ELSE IF event.issue = Null THEN "threw"
  ELSE IF event.issue[1].title = Null THEN "threw"
  ELSE IF event.issue[1].labels = Null THEN "threw"
  ELSE "saved"

ReleaseOutcome(event) ==
  IF ~config.enableAutomation \/ event.action # "published" THEN "null"
  ELSE IF event.release = Null THEN "threw"
  ELSE "saved"

\* one ingestion call: the entry goes through saveEntry, after the UUID drawn for entry.id
Ingest(op, event, outcome, entry, setItemOk) ==
  IF outcome = "saved"
  THEN /\ uuidCount + 1 < Len(UuidPool)
       /\ SaveEntryWrites(entry, setItemOk, TRUE, 1)
       /\ lastOp' = [op |-> op, event |-> event, outcome |-> outcome,
                     id |-> Written(entry, 1).id]
       /\ UNCHANGED config
  ELSE /\ lastOp' = [op |-> op, event |-> event, outcome |-> outcome, id |-> NoId]
       /\ UNCHANGED <<entries, sortedEntriesCache, storage, auditLogs, auditStorage, config,
                      clock, uuidCount>>
       /\ UNCHANGED <<swVars, rlVars>>

CreateEntryFromPRMerge(event, setItemOk) ==
  Ingest("createEntryFromPRMerge", event, PROutcome(event),
         PREntry(event.pull_request[1]), setItemOk)

CreateEntryFromIssueClosure(event, setItemOk) ==
  Ingest("createEntryFromIssueClosure", event, IssueOutcome(event),
         IssueEntry(event.issue[1]), setItemOk)

CreateEntryFromRelease(event, setItemOk) ==
  Ingest("createEntryFromRelease", event, ReleaseOutcome(event),
         ReleaseEntry(event.release[1]), setItemOk)

\* GitHub events: well-formed ones, and ones with a part missing or null
PullRequest(title, merged_at, head, body) ==
  [number |-> 7, title |-> title, html_url |-> "https://github.example/pull/7",
   merged_at |-> merged_at, head |-> head, body |-> body]

\* a body with a first paragraph and the three sections
SectionsBody ==
  "Fixed the cache TTL for all tenants.\n\n## What Changed\nTTL is 60 s\n"
    \o "## Rationale\nStale reads\n## Risks\nNone"

MergedAt == Some(1)

HeadCommit == Some([sha |-> "0a1b2c3d4e"])

PREvents ==
  { [action |-> "closed", pull_request |-> Some(pr)] :
      pr \in { PullRequest(Some("Fix cache TTL"), MergedAt, HeadCommit, Null),
               PullRequest(Some("Fix cache TTL"), MergedAt, HeadCommit,
                           Some("Rollback plan is documented in the runbook")),
               PullRequest(Some("Fix cache TTL"), Null, HeadCommit, Null),
               PullRequest(Null, Null, Null, Null),
               PullRequest(Null, MergedAt, HeadCommit, Null),
               PullRequest(Some("Fix cache TTL"), MergedAt, Null, Null) } }
  \cup { [action |-> "closed", pull_request |-> Null] }

Issue(title, labels) ==
  [number |-> 12, title |-> title, html_url |-> "https://github.example/issues/12",
   body |-> Null, labels |-> labels]

IssueEvents ==
  { [action |-> "closed", issue |-> i] :
      i \in { Some(Issue(Some("Incident in prod"), Some(<<"P1", "Incident">>))),
              Some(Issue(Null, Some(<< >>))),
              Some(Issue(Some("Incident in prod"), Null)),
              Null } }
  \cup { [action |-> "opened", issue |-> i] :
      i \in { Some(Issue(Some("Incident in prod"), Some(<<"P1", "Incident">>))), Null } }

Release(name) ==
  [tag_name |-> "v1.2.0", name |-> name, html_url |-> "https://github.example/releases/v1.2.0",
   body |-> Null, published_at |-> 1]

ReleaseEvents ==
  { [action |-> "published", release |-> r] :
      r \in { Some(Release(Some("Autumn"))), Some(Release(Null)), Null } }
  \cup { [action |-> "created", release |-> r] : r \in { Some(Release(Null)), Null } }

\* merged pull requests whose bodies have no section, all three, or an empty one
SectionEvents ==
  { [action |-> "closed",
     pull_request |-> Some(PullRequest(Some("Fix cache TTL"), MergedAt, HeadCommit, body))] :
      body \in { Null, Some(""), Some(SectionsBody), Some("## What Changed\n"),
                 Some("Fixed the cache TTL for all tenants.\n\n## Risks\n") } }

----------------------------------------------------------------------------
(* The entry store alone *)

StoreInit ==
  /\ entries = initialEntries
  /\ sortedEntriesCache = Null
  /\ storage = initialEntries
  /\ auditLogs = << >>
  /\ auditStorage = << >>
  /\ config = DefaultConfig
  /\ clock = Len(initialEntries)
  /\ uuidCount = 0
  /\ lastOp = [op |-> "init"]

SwInit ==
  /\ swEntries = swInitialEntries
  /\ swDrafts = << >>
  /\ swTasks = << >>

RateLimitInit ==
  /\ rateLimitMap = << >>
  /\ dateNow = 0

Init == StoreInit /\ SwInit /\ RateLimitInit

Next ==
  \/ \E e \in EntryInputs(StoreIds \cup CallerIds), ok \in BOOLEAN : SaveEntry(e, ok, TRUE)
  \/ \E id \in StoreIds \cup {"zz"}, r \in Roles, ok \in BOOLEAN :
       DeleteEntry(id, r, ok, TRUE)
  \/ GetEntries

Spec == Init /\ [][Next]_vars

\* the store with publish and supersede
LedgerNext ==
  \/ Next
  \/ \E id \in StoreIds, r \in Roles : Publish(id, r)
  \/ \E id \in StoreIds \cup {"zz"}, e \in EntryInputs({NoId}) : Supersede(id, e)

SpecLedger == Init /\ [][LedgerNext]_vars

\* searches over every store of SearchStores
SearchInit ==
  /\ entries \in SearchStores
  /\ storage = entries
  /\ sortedEntriesCache = Null
  /\ auditLogs = << >>
  /\ auditStorage = << >>
  /\ config = DefaultConfig
  /\ clock = 0
  /\ uuidCount = 0
  /\ lastOp = [op |-> "init"]
  /\ SwInit
  /\ RateLimitInit

SearchNext == \E q \in Queries : SearchEntries(q)

SpecSearch == SearchInit /\ [][SearchNext]_vars

\* similarity searches over every store of SimilarStores
SimilarInit ==
  /\ StoreInit
  /\ swEntries \in SimilarStores
  /\ swDrafts = << >>
  /\ swTasks = << >>
  /\ RateLimitInit

SimilarNext ==
  \E t \in Range(swEntries) \cup {WithVector(SwSeed("9", "Other"), <<1, 1>>)}, k \in TopKs :
    FindSimilarEntries(t, k)

SpecSimilar == SimilarInit /\ [][SimilarNext]_vars

\* the store with audit writes that fail: drafts by lux
AuditFailInputs(ids) ==
  {e \in EntryInputs(ids) :
     e.author = "lux" /\ e.status = "draft" /\ e.title # "" /\ e.version = 0}

AuditFailNext ==
  \/ \E e \in AuditFailInputs(StoreIds \cup CallerIds), ok \in BOOLEAN, auditOk \in BOOLEAN :
       SaveEntry(e, ok, auditOk)
  \/ \E id \in StoreIds \cup {"zz"}, ok \in BOOLEAN, auditOk \in BOOLEAN :
       DeleteEntry(id, "lux", ok, auditOk)

SpecAuditFail == Init /\ [][AuditFailNext]_vars

\* the ingestion of GitHub events into the store
IngestNext ==
  \/ \E c \in ConfigInputs : SetConfig(c)
  \/ \E ev \in PREvents, ok \in BOOLEAN : CreateEntryFromPRMerge(ev, ok)
  \/ \E ev \in IssueEvents, ok \in BOOLEAN : CreateEntryFromIssueClosure(ev, ok)
  \/ \E ev \in ReleaseEvents, ok \in BOOLEAN : CreateEntryFromRelease(ev, ok)

SpecIngest == Init /\ [][IngestNext]_vars

\* the two classifiers alone, over titles, bodies and label lists
ClassifyTitles ==
  { "Rollback database migration", "Fix rollback incident", "Hotfix login",
    "Flip feature flag", "Release v2 fix", "Major decision", "Decision log", "RFC 12",
    "Update readme", "Prefix cleanup" }

ClassifyBodies ==
  { Null, Some(""), Some("no changes"), Some("Rollback plan is documented in the runbook") }

ClassifyLabels ==
  { << >>, <<"Incident">>, <<"Milestone">>, <<"Decision", "incident">>, <<"Rollback">>,
    <<"Flip">>, <<"P1">> }

ClassifyPR(title, body) ==
  /\ lastOp' = [op |-> "determineEntryTypeFromPR", title |-> title, body |-> body,
                labels |-> << >>,
                result |-> DetermineEntryTypeFromPR([title |-> Some(title), body |-> body])]
  /\ UNCHANGED <<entries, sortedEntriesCache, storage, auditLogs, auditStorage, config,
                 clock, uuidCount>>
  /\ UNCHANGED <<swVars, rlVars>>

ClassifyIssue(title, labels) ==
  /\ lastOp' = [op |-> "determineEntryTypeFromIssue", title |-> title, body |-> Null,
                labels |-> labels,
                result |-> DetermineEntryTypeFromIssue([title |-> Some(title),
                                                        labels |-> Some(labels)])]
  /\ UNCHANGED <<entries, sortedEntriesCache, storage, auditLogs, auditStorage, config,
                 clock, uuidCount>>
  /\ UNCHANGED <<swVars, rlVars>>

ClassifyNext ==
  \/ \E title \in ClassifyTitles, body \in ClassifyBodies : ClassifyPR(title, body)
  \/ \E title \in ClassifyTitles, labels \in ClassifyLabels : ClassifyIssue(title, labels)

SpecClassify == Init /\ [][ClassifyNext]_vars

\* the template validator alone, on one entry
ValidatorInit ==
  /\ entries = initialEntries
  /\ storage = entries
  /\ sortedEntriesCache = Null
  /\ auditLogs = << >>
  /\ auditStorage = << >>
  /\ config = DefaultConfig
  /\ clock = 0
  /\ uuidCount = 0
  /\ \E i, j \in 1..Len(FieldChanges) : lastOp = [op |-> "input", entry |-> ValidatorInput(i, j)]
  /\ SwInit
  /\ RateLimitInit

ValidatorNext == ValidateCall \/ CheckQuickWriteCall

SpecValidator == ValidatorInit /\ [][ValidatorNext]_vars

\* cosineSimilarity alone, on two vectors; << >> is also the missing vector
CosineVectors ==
  Vectors \cup {<< >>, <<3, 4>>, <<0 - 1, 0>>, <<0 - 2, 0 - 2>>, <<1, 2, 3>>, <<0, 0, 0>>, <<2>>}

CosineInit ==
  /\ entries = initialEntries
  /\ storage = entries
  /\ sortedEntriesCache = Null
  /\ auditLogs = << >>
  /\ auditStorage = << >>
  /\ config = DefaultConfig
  /\ clock = 0
  /\ uuidCount = 0
  /\ SwInit
  /\ RateLimitInit
  /\ \E a, b \in CosineVectors : lastOp = [op |-> "input", vecA |-> a, vecB |-> b]

CosineCall ==
  /\ lastOp' = [op |-> "cosineSimilarity", vecA |-> lastOp.vecA, vecB |-> lastOp.vecB,
                result |-> CosineSimilarity(lastOp.vecA, lastOp.vecB)]
  /\ UNCHANGED <<entries, sortedEntriesCache, storage, auditLogs, auditStorage, config,
                 clock, uuidCount>>
  /\ UNCHANGED <<swVars, rlVars>>

SpecCosine == CosineInit /\ [][CosineCall]_vars

\* the synthesis of entries from well-formed events that pass their guards
SynthNext ==
  \/ \E ev \in SectionEvents, ok \in BOOLEAN : CreateEntryFromPRMerge(ev, ok)
  \/ \E ok \in BOOLEAN :
       CreateEntryFromIssueClosure(
         [action |-> "closed",
          issue |-> Some(Issue(Some("Incident in prod"), Some(<<"P1", "Incident">>)))], ok)
  \/ \E name \in {Null, Some("Autumn")}, ok \in BOOLEAN :
       CreateEntryFromRelease([action |-> "published", release |-> Some(Release(name))], ok)

SpecSynth == Init /\ [][SynthNext]_vars

\* the rate limiter
RateLimitNext ==
  \/ \E e \in Endpoints, l \in Limits, w \in Windows, ok \in BOOLEAN :
       CheckRateLimit(e, l, w, ok)
  \/ TimePasses

SpecRateLimit == Init /\ [][RateLimitNext]_vars

\* the audit log alone
AuditNext == LogAuditCall

SpecAudit == Init /\ [][AuditNext]_vars

\* the asynchronous store
SwNext ==
  \/ \E e \in CreateInputs : SwCreateEntry(e)
  \/ \E id \in SwIds \cup {"zz"}, u \in UpdateInputs, whole \in BOOLEAN :
       SwUpdateEntry(id, u, whole)
  \/ \E i \in 1..Len(swTasks) : SwHashed(i)
  \/ \E i \in 1..Len(swTasks) : SwStored(i)

SpecSw == Init /\ [][SwNext]_vars

\* drafts and their approval
DraftsNext ==
  \/ \E d \in DraftInputs(IdsOfDrafts) : SwSaveDraft(d)
  \/ \E id \in IdsOfDrafts \cup {"zz"} : SwApproveDraft(id)
  \/ \E id \in IdsOfDrafts : SwDeleteDraft(id)
  \/ \E i \in 1..Len(swTasks) : SwHashed(i)
  \/ \E i \in 1..Len(swTasks) : SwStored(i)
  \/ \E i \in 1..Len(swTasks) : SwDigestRejected(i)

SpecDrafts == Init /\ [][DraftsNext]_vars

\* import into a store that holds drafts
ImportNext ==
  \/ \E d \in DraftInputs(IdsOfDrafts) : SwSaveDraft(d)
  \/ \E data \in ImportDocs : SwImportData(data)

SpecImport == Init /\ [][ImportNext]_vars

----------------------------------------------------------------------------
(* Properties *)

IdsOf(m) == {m[i].id : i \in 1..Len(m)}

\* a step that is a call of saveEntry (every mutating call advances the clock)
SaveStep == clock' # clock /\ lastOp'.op = "saveEntry"

\* the version saveEntry must leave: one more than the stored one, or 1 for a new entry
ExpectedVersion(id) ==
  IF MapHas(entries, id) THEN MapGet(entries, id).version + 1 ELSE 1

\* C1 as stated: after saveEntry(E) of a valid E, getEntryById(E.id) returns an entry
\* whose version is one more than the version stored for E.id before the save, or 1
\* when the save created the entry, whatever version E carried.
C1_SaveThenGetByCallerId ==
  [][(SaveStep /\ lastOp'.valid) =>
       /\ MapHas(entries', lastOp'.arg)
       /\ MapGet(entries', lastOp'.arg).version = ExpectedVersion(lastOp'.arg)]_vars

\* C1 amended: after R = saveEntry(E), getEntryById(R.id) returns an entry whose version
\* is one more than the version stored for E.id before the save (and then R.id = E.id),
\* or 1 when E.id was absent or unknown (and then R.id is a new id, not E.id),
\* whatever version E carried.
C1_SaveThenGetByReturnedId ==
  [][SaveStep =>
       /\ MapHas(entries', lastOp'.id)
       /\ MapGet(entries', lastOp'.id).version = ExpectedVersion(lastOp'.arg)
       /\ lastOp'.created = ~MapHas(entries, lastOp'.arg)
       /\ IF lastOp'.created
          THEN lastOp'.id \notin IdsOf(entries) \cup {lastOp'.arg}
          ELSE lastOp'.id = lastOp'.arg]_vars

\* an entry saved twice stands at version 3
C1_Witness ==
  /\ lastOp.op = "saveEntry"
  /\ lastOp.valid
  /\ ~lastOp.created
  /\ MapGet(entries, lastOp.id).version = 3

\* C2: a saveEntry of an entry that fails template validation writes nothing: the
\* entry map, the persisted storage and the audit log stay as they were.
C2_InvalidSaveWritesNothing ==
  [][(SaveStep /\ ~lastOp'.valid) => UNCHANGED <<entries, storage, auditLogs>>]_vars

\* C3: no call makes an entry published on behalf of scribe: an entry that is
\* published after a step and was not before was written with role lux or mini-lux.
C3_PublishedOnlyByLuxOrMiniLux ==
  [][\A id \in IdsOf(entries') :
       (/\ MapGet(entries', id).status = "published"
        /\ ~(MapHas(entries, id) /\ MapGet(entries, id).status = "published"))
       => lastOp'.role \in {"lux", "mini-lux"}]_vars

\* C4: an entry leaves the store only when the requesting role is lux.
C4_OnlyLuxDeletes ==
  [][\A id \in IdsOf(entries) : ~MapHas(entries', id) => lastOp'.role = "lux"]_vars

\* C5: after supersede(oldId, newEntry) the old entry is still in the store and
\* archived, and the new entry is in the store, not archived, with
\* supersedesEntryId = oldId: exactly one of the two is retrievable as non-archived.
C5_SupersedeLeavesOneLive ==
  (lastOp.op = "supersede" /\ lastOp.ok) =>
    /\ MapHas(entries, lastOp.arg)
    /\ MapGet(entries, lastOp.arg).status = "archived"
    /\ MapHas(entries, lastOp.id)
    /\ MapGet(entries, lastOp.id).status # "archived"
    /\ Supersedes(MapGet(entries, lastOp.id)) = lastOp.arg
    /\ lastOp.id # lastOp.arg

C5_Witness ==
  /\ lastOp.op = "supersede"
  /\ lastOp.ok
  /\ MapGet(entries, lastOp.id).status = "published"

OverlappingUpdates(i, j) ==
  /\ i < j
  /\ swTasks[i].op = "updateEntry" /\ swTasks[j].op = "updateEntry"
  /\ swTasks[i].pc = "done" /\ swTasks[j].pc = "done"
  /\ "error" \notin DOMAIN swTasks[i] /\ "error" \notin DOMAIN swTasks[j]
  /\ swTasks[i].id = swTasks[j].id
  /\ i \in swTasks[j].during
  /\ (DOMAIN swTasks[i].changed) \cap (DOMAIN swTasks[j].changed) = {}
  /\ \A k \in 1..Len(swTasks) : swTasks[k].id = swTasks[i].id => k \in {i, j}

\* C7: when two updates of one entry overlap, the stored entry holds the changes of both.
C7_NoLostUpdate ==
  \A i, j \in 1..Len(swTasks) :
    OverlappingUpdates(i, j) =>
      LET stored == MapGet(swEntries, swTasks[i].id)
      IN  /\ \A f \in DOMAIN swTasks[i].changed : stored[f] = swTasks[i].changed[f]
          /\ \A f \in DOMAIN swTasks[j].changed : stored[f] = swTasks[j].changed[f]

\* C8: no step moves a published entry back to draft.
C8_PublishedNeverBackToDraft ==
  [][\A id \in IdsOf(entries) :
       (MapGet(entries, id).status = "published" /\ MapHas(entries', id))
       => MapGet(entries', id).status # "draft"]_vars

\* C9: an archived entry is immutable: while it is in the store no step changes it.
C9_ArchivedImmutable ==
  [][\A id \in IdsOf(entries) :
       (MapGet(entries, id).status = "archived" /\ MapHas(entries', id))
       => MapGet(entries', id) = MapGet(entries, id)]_vars

C11_SortedByDateThenCreatedAt ==
  \A i, j \in 1..Len(GetEntriesResult) :
    i < j =>
      \/ GetEntriesResult[i].date > GetEntriesResult[j].date
      \/ /\ GetEntriesResult[i].date = GetEntriesResult[j].date
         /\ GetEntriesResult[i].createdAt >= GetEntriesResult[j].createdAt

\* the entry has q in its title, its executiveSummary or one of its tags, ignoring case
HasIgnoringCase(text, q) ==
  \E off \in 0..(Len(Chars(text)) - Len(Chars(q))) :
    \A k \in 1..Len(Chars(q)) :
      ToLowerCase(Chars(text))[off + k] = ToLowerCase(Chars(q))[k]

Contains(e, q) ==
  \/ HasIgnoringCase(e.title, q)
  \/ HasIgnoringCase(e.executiveSummary, q)
  \/ \E k \in 1..Len(e.tags) : HasIgnoringCase(e.tags[k], q)

\* r holds, in the order of list, exactly the entries of list that satisfy Keep
IsFilterOf(r, list, Keep(_)) ==
  /\ \A e \in Range(list) : (e \in Range(r)) <=> Keep(e)
  /\ Range(r) \subseteq Range(list)
  /\ \A i, j \in 1..Len(r) :
       i < j => \E a, b \in 1..Len(list) : a < b /\ list[a] = r[i] /\ list[b] = r[j]

\* C12 as stated: searchEntries(q) returns, in the order of the listing, exactly the
\* entries that contain q ignoring case (every entry, for the empty q).
C12_SearchIsSubstringFilter ==
  lastOp.op = "searchEntries" =>
    IsFilterOf(lastOp.result, GetEntriesResult, LAMBDA e : Contains(e, lastOp.query))

\* C12 amended: for a query that is empty or only white space searchEntries returns
\* the whole listing; for any other query it returns, in the order of the listing,
\* exactly the entries that contain the query ignoring case.
C12_SearchTrimmedQuery ==
  lastOp.op = "searchEntries" =>
    IF \A k \in 1..Len(Chars(lastOp.query)) : Chars(lastOp.query)[k] \in WhiteSpace
    THEN lastOp.result = GetEntriesResult
    ELSE IsFilterOf(lastOp.result, GetEntriesResult, LAMBDA e : Contains(e, lastOp.query))

\* a search that keeps one entry of three, for a tag that differs from the query in case
C12_Witness ==
  /\ lastOp.op = "searchEntries"
  /\ lastOp.query = "infra"
  /\ Len(lastOp.result) = 1
  /\ lastOp.result[1].title = "Deploy Fix"
  /\ Len(GetEntriesResult) = 3

\* C13: findSimilarEntries(E, topK) never returns E itself, returns at most topK
\* results, and returns them in non-increasing order of score.
C13_FindSimilar ==
  lastOp.op = "findSimilarEntries" =>
    /\ \A i \in 1..Len(lastOp.result) : lastOp.result[i].entry.id # lastOp.target.id
    /\ Len(lastOp.result) <= lastOp.topK
    /\ \A i, j \in 1..Len(lastOp.result) :
         i < j => ~ScoreLess(lastOp.result[i].score, lastOp.result[j].score)

\* the two other entries come back, the later one of the store first for its higher score
C13_Witness ==
  /\ lastOp.op = "findSimilarEntries"
  /\ lastOp.target.id = "1"
  /\ lastOp.topK = 2
  /\ Len(lastOp.result) = 2
  /\ lastOp.result[1].entry.id = "3"
  /\ ScoreLess(lastOp.result[2].score, lastOp.result[1].score)

\* auditLogs' is auditLogs with one record added for the action on the entry id
OneRecordAdded(action, entryId) ==
  /\ Len(auditLogs') = Len(auditLogs) + 1
  /\ Tail(auditLogs') = auditLogs
  /\ Head(auditLogs').action = action
  /\ Head(auditLogs').entryId = entryId

Kept(n) == IF n < MAX_AUDIT_LOGS THEN n ELSE MAX_AUDIT_LOGS

\* C15 as stated: after n appends the log holds the most recent min(n, 1000) records
\* in their append order, and no append fails.
C15_LogIsRecentInAppendOrder ==
  /\ auditLogs = [i \in 1..Kept(uuidCount) |-> AuditRecord(uuidCount - Kept(uuidCount) + i)]
  /\ lastOp.op = "logAudit" => ~lastOp.threw

\* C15 amended: after n appends the log holds at most 1000 records, the most recent
\* min(n, 1000) appended ones, newest first (the reverse of their append order), and
\* no append fails.
C15_LogIsRecentNewestFirst ==
  /\ Len(auditLogs) <= MAX_AUDIT_LOGS
  /\ auditLogs = [i \in 1..Kept(uuidCount) |-> AuditRecord(uuidCount - i + 1)]
  /\ lastOp.op = "logAudit" => ~lastOp.threw

\* two records more than the cap were appended and the two oldest are gone
C15_Witness ==
  /\ lastOp.op = "logAudit"
  /\ uuidCount = MAX_AUDIT_LOGS + 2
  /\ Len(auditLogs) = MAX_AUDIT_LOGS
  /\ auditLogs[MAX_AUDIT_LOGS].entryId = 3

IngestOps == {"createEntryFromPRMerge", "createEntryFromIssueClosure", "createEntryFromRelease"}

\* the call recorded in op is one the claimed guards reject
Guarded(op) ==
  /\ op.op \in IngestOps
  /\ \/ ~config.enableAutomation
     \/ /\ op.op = "createEntryFromPRMerge"
        /\ op.event.pull_request # Null
        /\ op.event.pull_request[1].merged_at = Null
     \/ op.op = "createEntryFromIssueClosure" /\ op.event.action # "closed"
     \/ op.op = "createEntryFromRelease" /\ op.event.action # "published"

\* C17: a pull-request event whose merged_at is null, an issue event whose action
\* is not "closed", a release event whose action is not "published", and any event
\* while automation is disabled are skipped: the call returns null, and the store
\* and the audit log are left as they were.
C17_GuardedEventsSkipped ==
  [][Guarded(lastOp') =>
       /\ lastOp'.outcome = "null"
       /\ UNCHANGED <<entries, storage, auditLogs, auditStorage>>
    ]_vars

\* a closed, unmerged pull request was skipped while automation was enabled, after
\* an earlier event had been ingested and audited
C17_Witness ==
  /\ lastOp.op = "createEntryFromPRMerge"
  /\ config.enableAutomation
  /\ lastOp.event.pull_request # Null
  /\ lastOp.event.pull_request[1].title # Null
  /\ lastOp.event.pull_request[1].merged_at = Null
  /\ lastOp.outcome = "null"
  /\ Len(entries) > Len(initialEntries)
  /\ Len(auditLogs) > 0

\* the rules in the claimed order, each with the keywords its classifier looks
\* for; the issue classifier has none for rollback and flip, which get the words
\* of the pull-request classifier
ClaimedRules(op) ==
  IF op = "determineEntryTypeFromPR"
  THEN << [type |-> "rollback", words |-> {"rollback"}],
          [type |-> "incident", words |-> {"incident", "hotfix", "fix"}],
          [type |-> "flip", words |-> {"flip", "feature flag"}],
          [type |-> "milestone", words |-> {"milestone", "release", "major"}],
          [type |-> "decision", words |-> {"decision", "rfc"}] >>
  ELSE << [type |-> "rollback", words |-> {"rollback"}],
          [type |-> "incident", words |-> {"incident"}],
          [type |-> "flip", words |-> {"flip", "feature flag"}],
          [type |-> "milestone", words |-> {"milestone"}],
          [type |-> "decision", words |-> {"decision"}] >>

\* a keyword of the rule appears in the title or is the name of a label
RuleMatches(rule, title, labels) ==
  \E word \in rule.words :
    \/ Includes(ToLowerCase(Chars(title)), Chars(word))
    \/ \E i \in 1..Len(labels) : ToLowerCase(Chars(labels[i])) = Chars(word)

\* the type of the first rule that matches, Routine when none does
FirstMatchingRule(op, title, labels) ==
  LET rules == ClaimedRules(op)
      matching == {i \in 1..Len(rules) : RuleMatches(rules[i], title, labels)}
  IN  IF matching = {} THEN "routine"
      ELSE rules[CHOOSE i \in matching : \A j \in matching : i <= j].type

ClassifyOps == {"determineEntryTypeFromPR", "determineEntryTypeFromIssue"}

\* C18: the type given to a PR-merge or issue-closed event is that of the first
\* rule, in the order rollback, incident, flip, milestone, decision, whose keyword
\* appears in the title or the labels, and Routine when no rule matches.
C18_FirstRuleOverTitleAndLabels ==
  lastOp.op \in ClassifyOps => lastOp.result = FirstMatchingRule(lastOp.op, lastOp.title, lastOp.labels)

\* C19: no ingestion operation throws, whatever part of the event payload is
\* missing or null.
C19_IngestionNeverThrows ==
  lastOp.op \in IngestOps => lastOp.outcome # "threw"

\* the event of the call passes the guard of its handler
PassesGuard(op) ==
  /\ config.enableAutomation
  /\ \/ /\ op.op = "createEntryFromPRMerge"
        /\ op.event.pull_request # Null
        /\ op.event.pull_request[1].merged_at # Null
     \/ op.op = "createEntryFromIssueClosure" /\ op.event.action = "closed"
     \/ op.op = "createEntryFromRelease" /\ op.event.action = "published"

\* C20: an event that passes its guard adds exactly one entry to the store, with
\* version 1 and with status published when autoPublish is on and draft when it
\* is off; no ingestion call adds more than one entry or changes an entry that
\* was already stored.
C20_OneNewEntryPerEvent ==
  [][lastOp'.op \in IngestOps =>
       /\ Len(entries') <= Len(entries) + 1
       /\ SubSeq(entries', 1, Len(entries)) = entries
       /\ PassesGuard(lastOp') =>
            /\ Len(entries') = Len(entries) + 1
            /\ entries'[Len(entries')].version = 1
            /\ entries'[Len(entries')].status =
                 (IF config.autoPublish THEN "published" ELSE "draft")
    ]_vars

\* a saveEntry step that took the create branch: the new entry is the last of the map
CreatedBySave(status) ==
  /\ ~lastOp'.threw
  /\ Len(entries') = Len(entries) + 1
  /\ SubSeq(entries', 1, Len(entries)) = entries
  /\ entries'[Len(entries')].id = lastOp'.id
  /\ entries'[Len(entries')].version = 1
  /\ entries'[Len(entries')].status = status

AbsentOrEmpty(entry, f) ==
  \/ f \notin DOMAIN entry
  \/ CASE f = "date" -> entry.date = EmptyDate
       [] f = "references" -> Len(entry.references) = 0
       [] OTHER -> entry[f] = ""

ErrorNaming(result, f) == <<"Missing required field", f>> \in Range(result.errors)

\* every reference carries id, type and description
ReferencesComplete(entry) ==
  \A i \in 1..Len(entry.references) :
    \A f \in {"id", "type", "description"} : ~AbsentOrEmpty(entry.references[i], f)

\* all fields populated, title of 5 characters or more, date of the fixed form,
\* complete references, author one of the three roles, known type
FullyPopulated(entry) ==
  /\ \A f \in Range(MINIMUM_FIELDS) \cup {"author", "type"} : ~AbsentOrEmpty(entry, f)
  /\ Len(entry.title) >= 5
  /\ entry.date > 0 \/ entry.date = ImpossibleDate
  /\ ReferencesComplete(entry)
  /\ entry.author \in Roles
  /\ entry.type \in EntryTypes

\* C22 as stated: validate reports an error naming each required field that is
\* absent or empty, returns isValid = true and no errors for every entry that is
\* fully populated with a date of the form YYYY-MM-DD HH:MM:SS, and isValid is
\* true exactly when the error list is empty.
C22_ValidateRequiredFields ==
  lastOp.op = "validate" =>
    /\ \A f \in Range(MINIMUM_FIELDS) :
         AbsentOrEmpty(lastOp.entry, f) => ErrorNaming(lastOp.result, f)
    /\ FullyPopulated(lastOp.entry) => lastOp.result.isValid /\ lastOp.result.errors = << >>
    /\ lastOp.result.isValid <=> lastOp.result.errors = << >>

\* C22 amended: validate reports an error naming each of title, date,
\* executiveSummary, whatChanged, decisionsRationale, risksMitigations that is
\* absent or empty and references when it is absent (an empty references list
\* gets a warning and no error); it returns no errors exactly for the entries with
\* those six fields populated, references present and each complete, a title of
\* 5 characters or more, a date of the fixed form that names a real instant, an
\* author among the three roles and a known type; isValid is true exactly when
\* the error list is empty, whatever the warnings.
C22_ValidateRequiredFieldsRealDate ==
  lastOp.op = "validate" =>
    LET entry == lastOp.entry
        result == lastOp.result
    IN  /\ \A f \in Range(MINIMUM_FIELDS) \ {"references"} :
             AbsentOrEmpty(entry, f) <=> ErrorNaming(result, f)
        /\ ErrorNaming(result, "references") <=> "references" \notin DOMAIN entry
        /\ ("references" \in DOMAIN entry /\ entry.references = << >>) =>
             "No references provided" \in Range(result.warnings)
        /\ result.errors = << >> <=>
             /\ \A f \in (Range(MINIMUM_FIELDS) \ {"references"}) \cup {"author", "type"} :
                  ~AbsentOrEmpty(entry, f)
             /\ "references" \in DOMAIN entry
             /\ Len(entry.title) >= 5
             /\ entry.date > 0
             /\ ReferencesComplete(entry)
             /\ entry.author \in Roles
             /\ entry.type \in EntryTypes
        /\ result.isValid <=> result.errors = << >>

\* an entry without title and with an empty references list was validated: the
\* one error names title, and the empty list is only warned about
C22_Witness ==
  /\ lastOp.op = "validate"
  /\ "title" \notin DOMAIN lastOp.entry
  /\ "references" \in DOMAIN lastOp.entry
  /\ lastOp.entry.references = << >>
  /\ lastOp.result.errors = << <<"Missing required field", "title">> >>
  /\ lastOp.result.warnings = <<"No references provided">>
  /\ ~lastOp.result.isValid

\* the narrative field is there and shorter than its ceiling
UnderCeiling(entry, k) ==
  /\ QuickWriteCeilings[k][1] \in DOMAIN entry
  /\ Len(entry[QuickWriteCeilings[k][1]]) < QuickWriteCeilings[k][2]

\* C23: checkQuickWriteCriteria(entry) returns true exactly when validate(entry)
\* reports no errors and each narrative field is under its ceiling, and false
\* otherwise, also for an entry that lacks a narrative field.
C23_QuickWriteIsBoolean ==
  lastOp.op = "checkQuickWriteCriteria" =>
    lastOp.result =
      (IF /\ Validate(lastOp.entry).errors = << >>
          /\ \A k \in 1..Len(QuickWriteCeilings) : UnderCeiling(lastOp.entry, k)
       THEN "true" ELSE "false")

\* the vector has a component other than 0
NonZero(v) == \E i \in 1..Len(v) : v[i] # 0

\* the cases in which cosineSimilarity is to return 0
ZeroCase(vecA, vecB) ==
  \/ Len(vecA) # Len(vecB)
  \/ vecA = << >> \/ vecB = << >>
  \/ ~NonZero(vecA) \/ ~NonZero(vecB)

\* C24 as stated: cosineSimilarity(a, b) is 0 when a and b differ in length, one
\* is missing or empty, or one has zero norm, and cosineSimilarity(v, v) is 1 for
\* every non-zero v.
C24_CosineZeroAndOne ==
  lastOp.op = "cosineSimilarity" =>
    /\ ZeroCase(lastOp.vecA, lastOp.vecB) => lastOp.result.num = 0
    /\ (NonZero(lastOp.vecA) /\ lastOp.vecA = lastOp.vecB) =>
         lastOp.result.num = lastOp.result.den

\* C24 amended: cosineSimilarity(a, b) is 0 in those cases, and cosineSimilarity(v, v)
\* is 1 up to the rounding of the two square roots (within 2 / SqrtGrid here),
\* not always 1 exactly.
C24_CosineZeroAndNearOne ==
  lastOp.op = "cosineSimilarity" =>
    /\ ZeroCase(lastOp.vecA, lastOp.vecB) => lastOp.result = ZeroScore
    /\ (NonZero(lastOp.vecA) /\ lastOp.vecA = lastOp.vecB) =>
         /\ (lastOp.result.num - lastOp.result.den) * SqrtGrid <= 2 * lastOp.result.den
         /\ (lastOp.result.den - lastOp.result.num) * SqrtGrid <= 2 * lastOp.result.den

\* cosineSimilarity(v, v) of a non-zero v came out close to 1 and not 1, after
\* the rounding of the roots
C24_Witness ==
  /\ lastOp.op = "cosineSimilarity"
  /\ lastOp.vecA = <<1, 1>>
  /\ lastOp.vecB = <<1, 1>>
  /\ lastOp.result.num # lastOp.result.den
  /\ lastOp.result.num > 0

\* the hash and the embeddings of the entry are those of its present content
DerivedFresh(e) ==
  /\ "hash" \in DOMAIN e
  /\ "embeddings" \in DOMAIN e
  /\ e.hash = GenerateIntegrityHash(e)
  /\ e.embeddings = [executiveSummary |-> EmbedText(e.executiveSummary),
                     decisionsRationale |-> EmbedText(e.decisionsRationale),
                     risksMitigations |-> EmbedText(e.risksMitigations)]

\* the call has ended and has written its entry
Wrote(task) ==
  task.op \in {"createEntry", "updateEntry"} /\ task.pc = "done" /\ task.entry # Null

\* C25 as stated: once createEntry and updateEntry calls have been made and have
\* ended, every entry of the published collection has the hash and the embeddings
\* of its present content.
C25_EveryEntryHashed ==
  (swTasks # << >> /\ Pending = {}) => \A i \in 1..Len(swEntries) : DerivedFresh(swEntries[i])

\* C25 amended: every entry that a createEntry or updateEntry call has written has
\* the hash and the embeddings of its present content, and no entry of the
\* published collection has a hash or embeddings of other content; an entry that
\* was only loaded (seed data or storage) has neither until its first update.
C25_WrittenEntriesHashed ==
  /\ \A i \in 1..Len(swEntries) :
       ("hash" \in DOMAIN swEntries[i] \/ "embeddings" \in DOMAIN swEntries[i])
         => DerivedFresh(swEntries[i])
  /\ \A k \in 1..Len(swTasks) :
       Wrote(swTasks[k]) =>
         /\ MapHas(swEntries, swTasks[k].id)
         /\ DerivedFresh(MapGet(swEntries, swTasks[k].id))

\* an entry was updated twice, the second time from a copy that carried the first
\* hash, and holds the hash of its present content; the other seed has no hash
C25_Witness ==
  /\ Len(swTasks) = 2
  /\ Wrote(swTasks[1]) /\ Wrote(swTasks[2])
  /\ swTasks[1].id = "1" /\ swTasks[2].id = "1"
  /\ "hash" \in DOMAIN swTasks[2].data
  /\ swTasks[2].data.hash # MapGet(swEntries, "1").hash
  /\ DerivedFresh(MapGet(swEntries, "1"))
  /\ "hash" \notin DOMAIN MapGet(swEntries, "2")

\* C26: every entry the ingestion synthesizes has a non-empty title,
\* executiveSummary, whatChanged, decisionsRationale and risksMitigations, and
\* validate reports no errors for it.
C26_SynthesizedEntryMeetsTemplate ==
  [][(lastOp'.op \in IngestOps /\ lastOp'.outcome = "saved" /\ clock' # clock) =>
       LET entry == MapGet(entries', lastOp'.id)
       IN  /\ \A f \in {"title", "executiveSummary", "whatChanged", "decisionsRationale",
                        "risksMitigations"} : entry[f] # ""
           /\ Validate(entry).errors = << >>
    ]_vars

\* C27: the memoised sorted listing is never stale: after any sequence of
\* saveEntry and deleteEntry calls, also when the write to persistent storage
\* fails, getEntries returns exactly the entries of the map, sorted by date
\* descending.
C27_ListingNeverStale == GetEntriesResult = SortByDateDesc(entries)

ApprovalOf(task) == task.op = "approveDraft" /\ task.data # Null

Published(task) ==
  /\ MapHas(swEntries, task.id)
  /\ MapGet(swEntries, task.id).revision = 1
  /\ MapGet(swEntries, task.id).isDraft = FALSE

\* C28: approveDraft moves a draft to the published collection so that at every
\* observable point the record is in drafts or in published; once the call has
\* completed it is in published only, with revision 1 and isDraft false; and if
\* publishing fails the draft is still in drafts.
C28_ApprovalIsAtomic ==
  \A k \in 1..Len(swTasks) :
    ApprovalOf(swTasks[k]) =>
      /\ MapHas(swDrafts, swTasks[k].draft) \/ MapHas(swEntries, swTasks[k].id)
      /\ (swTasks[k].pc = "done" /\ "error" \notin DOMAIN swTasks[k]) =>
            Published(swTasks[k]) /\ ~MapHas(swDrafts, swTasks[k].draft)
      /\ (swTasks[k].pc = "done" /\ "error" \in DOMAIN swTasks[k]) =>
            MapHas(swDrafts, swTasks[k].draft)

\* C29: importData is all-or-nothing: whenever it reports success = false, both
\* collections are exactly as they were before the call.
C29_ImportAllOrNothing ==
  [][(clock' # clock /\ lastOp'.op = "importData" /\ ~lastOp'.success) =>
       (swEntries' = swEntries /\ swDrafts' = swDrafts)]_vars

\* a step of checkRateLimit
RateLimitStep ==
  lastOp'.op = "checkRateLimit" /\ (rateLimitMap' # rateLimitMap \/ auditLogs' # auditLogs)

\* what C30 says of a call with a given limit
RateLimited(limit) ==
  LET endpoint == lastOp'.endpoint
      record == rateLimitMap[endpoint]
      known == endpoint \in DOMAIN rateLimitMap
  IN  /\ lastOp'.result => rateLimitMap'[endpoint].count <= limit
      /\ (known /\ record.count >= limit /\ dateNow < record.resetAt) =>
            /\ ~lastOp'.result
            /\ Len(auditLogs') = Len(auditLogs) + 1
            /\ auditLogs'[1].action = "rate_limit_exceeded"
            /\ auditLogs'[1].resource = endpoint
            /\ rateLimitMap' = rateLimitMap
      /\ (known /\ dateNow > record.resetAt) =>
            /\ lastOp'.result
            /\ rateLimitMap'[endpoint] =
                 [count |-> 1, resetAt |-> dateNow + lastOp'.windowMs]

\* C30: for each endpoint key, checkRateLimit admits at most `limit` calls within
\* one window of windowMs: once `limit` calls have been admitted, every further
\* call before the window's reset time returns false and appends a
\* rate_limit_exceeded audit record without changing the count, and the first call
\* after the reset time is admitted and starts a new window with count 1.
C30_RateLimit == [][RateLimitStep => RateLimited(lastOp'.limit)]_vars

====
